---- MODULE Spec2Model ----
(***************************************************************************)
(* Highline monitoring backend: the service registry (ServiceStore), the   *)
(* remediation ledger (RemediationStore), the remediation orchestrator     *)
(* (RemediationService.RunOpenCode), the WebSocket hub (WSHub, WSHandler)  *)
(* and the handlers that tie them together (HeartbeatHandler,              *)
(* TriggerRemediation, RemediationReportHandler).                          *)
(*                                                                         *)
(* Every store method holds its store's mutex for its whole body, so a     *)
(* method is one atomic action.  RunOpenCode is a sequence of such calls   *)
(* and of sandbox-backend calls; it is split at each of them, and several  *)
(* attempts interleave.                                                    *)
(*                                                                         *)
(* Abstractions: time.Now() is a logical clock `now`; UptimePercent, a     *)
(* float64 in the code, is kept as the exact rational it approximates;     *)
(* uuid.New() yields an id that was never used before.                     *)
(***************************************************************************)
EXTENDS Integers, Sequences, FiniteSets, TLC

\* ------------------------------------------------------------ bounds
MaxOps == 3          \* direct store calls in one behaviour
MaxTime == 3         \* ticks of the logical clock
Timeout == 1         \* ServiceStore.timeout, in ticks
MaxAttempts == 2     \* RunOpenCode invocations in one behaviour
MaxReports == 1      \* agent reports in one behaviour
PrefillGap == 2      \* how far below its cap a prefilled log starts
LedgerGap == 1       \* how far below its cap the prefilled ledger starts

\* ------------------------------------------------------------ program constants
LogCap == 100        \* Service.addLog keeps the last 100 entries
RemLogCap == 10      \* AddRemediationLog keeps the last 10 entries
LedgerCap == 100     \* RemediationStore.Create keeps the last 100 records

Nil == <<>>
Some(x) == <<x>>

Names == {"svc-a", "svc-b"}

StatusHealthy == "healthy"
StatusError == "error"
StatusDown == "down"

\* ------------------------------------------------------------ heartbeat inputs
\* LogData.Details: a map from keys to typed JSON values.
StrVal(s) == [t |-> "string", v |-> s]
NumVal(n) == [t |-> "float64", v |-> n]

LogDatas ==
    { [EventType |-> "text_message",
       Details |-> [k \in {"user", "message_length"} |->
                       IF k = "user" THEN StrVal("bob") ELSE NumVal(12)]],
      [EventType |-> "file_upload",
       Details |-> [k \in {"user"} |-> StrVal("bob")]],
      [EventType |-> "file_upload_failed",
       Details |-> [k \in {"user", "reason"} |->
                       IF k = "user" THEN StrVal("bob") ELSE StrVal("quota")]],
      [EventType |-> "deploy", Details |-> Nil] }

HeartbeatRequest(name, repo, status, err, ld) ==
    [ServiceName |-> name, GitHubRepo |-> repo, Status |-> status,
     ErrorLog |-> err, LogData |-> ld]

\* The requests the handler passes on (service_name is never empty there).
DataOf(eventType) == Some(CHOOSE d \in LogDatas : d.EventType = eventType)

HeartbeatRequests ==
    { HeartbeatRequest("svc-a", "", "healthy", "", Nil),
      HeartbeatRequest("svc-a", "https://example/x/y", "error", "boom", Nil),
      HeartbeatRequest("svc-a", "", "degraded", "slow", DataOf("file_upload_failed")),
      HeartbeatRequest("svc-b", "https://example/x/y", "healthy", "", DataOf("text_message")),
      HeartbeatRequest("svc-b", "https://example/x/y", "error", "", DataOf("deploy")),
      HeartbeatRequest("svc-b", "", "", "", DataOf("file_upload")) }

VARIABLES
    now,          \* time.Now()
    services,     \* ServiceStore.services: name -> Service
    downServices, \* the result of the last CheckTimeouts: names newly down
    ops,          \* direct store calls made so far
    appended,     \* history: name -> every log entry ever passed to addLog
    remAppended,  \* history: name -> every text AddRemediationLog appended
    hist,         \* history: name -> counts of heartbeats and down transitions
    swept,        \* history: the time of the last sweep, Nil once a heartbeat followed it
    config,       \* RemediationService: dockerClient, githubPAT, cerebrasKey
    records,      \* RemediationStore.records: id -> RemediationRecord
    order,        \* RemediationStore.order: ids in insertion order
    procs,        \* the RunOpenCode invocations: id -> position and locals
    nextId,       \* the next fresh remediation id
    reports,      \* agent reports received so far
    created,      \* history: every id passed to Create, in call order
    clients,      \* WSHub.clients: the registered connections
    conns,        \* the WSHandler invocations: connection -> position and what it received
    wire,         \* the writes Broadcast's goroutines have still to make
    sent,         \* history: the number of Broadcast calls
    triggers,     \* the TriggerRemediation goroutines, in spawn order
    replies,      \* history: the status codes HeartbeatHandler has answered with
    thr,          \* threads inside a store or hub method: their position and locals
    mu,           \* the three sync.RWMutex: who holds each, who waits to write
    serial        \* history: the registry as the locked sections applied whole, in lock order

regVars == <<services, downServices, ops, appended, remAppended, hist, swept>>
ledVars == <<config, records, order, procs, nextId, reports, created>>
hubVars == <<clients, conns, wire, sent>>
lockVars == <<thr, mu, serial>>
vars == <<now, regVars, ledVars, hubVars, triggers, replies, lockVars>>

\* ------------------------------------------------------------ ServiceStore
RECURSIVE Gcd(_, _)
Gcd(a, b) == IF b = 0 THEN a ELSE Gcd(b, a % b)

\* float64(success) / float64(total) * 100, as the rational in lowest terms.
Percent(success, total) ==
    LET g == Gcd(success * 100, total)
    IN [num |-> (success * 100) \div g, den |-> total \div g]

\* Mutant: the recomputation is dropped.
keepUptime(svc) == svc

\* if TotalChecks > 0 { UptimePercent = SuccessChecks / TotalChecks * 100 }
recalcUptime(svc) ==
    IF svc.TotalChecks > 0
    THEN [svc EXCEPT !.UptimePercent = Percent(svc.SuccessChecks, svc.TotalChecks)]
    ELSE svc

LastN(s, n) == IF Len(s) > n THEN SubSeq(s, Len(s) - n + 1, Len(s)) ELSE s

\* Mutant: on overflow the newest entries are dropped instead of the oldest.
addLogKeepOldest(svc, entry) ==
    LET l == Append(svc.Logs, entry)
    IN [svc EXCEPT !.Logs = IF Len(l) > LogCap THEN SubSeq(l, 1, LogCap) ELSE l]

addLog(svc, entry) ==
    [svc EXCEPT !.Logs = LastN(Append(svc.Logs, entry), LogCap)]

LogEntry(ts, type, msg, eventType, details) ==
    [Timestamp |-> ts, Type |-> type, Message |-> msg,
     EventType |-> eventType, Details |-> details]

\* v, ok := Details[k].(string): the zero value when absent or of another type.
AsString(details, k) ==
    IF k \in DOMAIN details /\ details[k].t = "string" THEN details[k].v ELSE ""
IsString(details, k) == k \in DOMAIN details /\ details[k].t = "string"
AsFloat(details, k) ==
    IF k \in DOMAIN details /\ details[k].t = "float64" THEN details[k].v ELSE 0
IsFloat(details, k) == k \in DOMAIN details /\ details[k].t = "float64"

\* A formatted message is the sequence of its pieces.
buildLogMessage(data) ==
    LET d == data.Details
        mb(k) == ToString(AsFloat(d, k)) \o ".00 MB"
    IN CASE data.EventType = "text_message" ->
              IF IsString(d, "user")
              THEN IF IsFloat(d, "message_length")
                   THEN <<"Text message from @", AsString(d, "user"), " (",
                          ToString(AsFloat(d, "message_length")), " chars)">>
                   ELSE <<"Text message from @", AsString(d, "user")>>
              ELSE <<"Text message received">>
         [] data.EventType = "file_upload" ->
              IF AsString(d, "user") # "" /\ AsString(d, "filename") # ""
              THEN <<"File upload from @", AsString(d, "user"), ": ",
                     AsString(d, "filename"), " (", mb("filesize_mb"), ")">>
              ELSE <<"File upload received">>
         [] data.EventType = "file_upload_failed" ->
              IF AsString(d, "user") # ""
              THEN <<"File upload FAILED from @", AsString(d, "user"), ": ",
                     AsString(d, "filename"), " (", mb("filesize_mb"), ") - ",
                     AsString(d, "reason")>>
              ELSE <<"File upload failed">>
         [] OTHER -> <<"Event: ", data.EventType>>

NewService(req) ==
    [Name |-> req.ServiceName, GitHubRepo |-> req.GitHubRepo, Status |-> "",
     LastHeartbeat |-> 0, LastError |-> "", UptimePercent |-> [num |-> 0, den |-> 1],
     TotalChecks |-> 0, SuccessChecks |-> 0, RemediationLog |-> <<>>, Logs |-> <<>>]

\* The log entry a heartbeat appends.
heartbeatEntry(req, t) ==
    LET has == req.LogData # Nil
        ld == req.LogData[1]
        eventType == IF has THEN ld.EventType ELSE ""
        details == IF has THEN ld.Details ELSE Nil
    IN IF req.Status = "healthy"
       THEN LogEntry(t, "heartbeat",
                     IF has THEN buildLogMessage(ld) ELSE <<"Service reported healthy">>,
                     eventType, details)
       ELSE LogEntry(t, "error",
                     IF has /\ req.ErrorLog = "" THEN buildLogMessage(ld)
                     ELSE <<req.ErrorLog>>,
                     eventType, details)

\* Mutant: a heartbeat leaves a down service down.
applyHeartbeatStaysDown(svc, req, t) ==
    LET s1 == [svc EXCEPT !.GitHubRepo = req.GitHubRepo,
                          !.LastHeartbeat = t,
                          !.TotalChecks = @ + 1]
        s2 == IF req.Status = "healthy"
              THEN [s1 EXCEPT !.Status = IF @ = StatusDown THEN @ ELSE StatusHealthy,
                              !.SuccessChecks = @ + 1,
                              !.LastError = ""]
              ELSE [s1 EXCEPT !.Status = IF @ = StatusDown THEN @ ELSE StatusError,
                              !.LastError = req.ErrorLog]
    IN recalcUptime(addLog(s2, heartbeatEntry(req, t)))

\* Mutant: an empty github_repo in the request keeps the stored repo.
applyHeartbeatKeepRepo(svc, req, t) ==
    LET s1 == [svc EXCEPT !.GitHubRepo = IF req.GitHubRepo = "" THEN @ ELSE req.GitHubRepo,
                          !.LastHeartbeat = t,
                          !.TotalChecks = @ + 1]
        s2 == IF req.Status = "healthy"
              THEN [s1 EXCEPT !.Status = StatusHealthy,
                              !.SuccessChecks = @ + 1,
                              !.LastError = ""]
              ELSE [s1 EXCEPT !.Status = StatusError,
                              !.LastError = req.ErrorLog]
    IN recalcUptime(addLog(s2, heartbeatEntry(req, t)))

\* RecordHeartbeat's effect on the record `svc` (new or existing) at time t.
applyHeartbeat(svc, req, t) ==
    LET s1 == [svc EXCEPT !.GitHubRepo = req.GitHubRepo,
                          !.LastHeartbeat = t,
                          !.TotalChecks = @ + 1]
        s2 == IF req.Status = "healthy"
              THEN [s1 EXCEPT !.Status = StatusHealthy,
                              !.SuccessChecks = @ + 1,
                              !.LastError = ""]
              ELSE [s1 EXCEPT !.Status = StatusError,
                              !.LastError = req.ErrorLog]
    IN recalcUptime(addLog(s2, heartbeatEntry(req, t)))

Put(f, k, v) == [x \in DOMAIN f \cup {k} |-> IF x = k THEN v ELSE f[x]]

NoHist == [hb |-> 0, healthy |-> 0, downs |-> 0]

RecordHeartbeat(req) ==
    LET n == req.ServiceName
        exists == n \in DOMAIN services
        old == IF exists THEN services[n] ELSE NewService(req)
        new == applyHeartbeat(old, req, now)
    IN /\ ops < MaxOps
       /\ services' = Put(services, n, new)
       /\ appended' = Put(appended, n,
              Append(IF exists THEN appended[n] ELSE <<>>, heartbeatEntry(req, now)))
       /\ remAppended' = IF exists THEN remAppended ELSE Put(remAppended, n, <<>>)
       /\ hist' = Put(hist, n,
              LET h == IF exists THEN hist[n] ELSE NoHist
              IN [h EXCEPT !.hb = @ + 1,
                           !.healthy = @ + (IF req.Status = "healthy" THEN 1 ELSE 0)])
       /\ ops' = ops + 1
       /\ swept' = Nil
       /\ UNCHANGED <<now, downServices>>

\* Mutant: a record that is already down is swept again.
isStaleIgnoringStatus(svc, t) == t - svc.LastHeartbeat > Timeout

\* now.Sub(service.LastHeartbeat) > s.timeout
isStale(svc, t) == svc.Status # StatusDown /\ t - svc.LastHeartbeat > Timeout

statusEntry(t) ==
    LogEntry(t, "status", <<"Service marked as DOWN - heartbeat timeout">>, "", Nil)

\* Mutant: the down transition is not logged.
markDownSilent(svc, t) ==
    recalcUptime([svc EXCEPT !.Status = StatusDown, !.TotalChecks = @ + 1])

\* Mutant: the down transition is not counted as a check.
markDownUncounted(svc, t) ==
    addLog(recalcUptime([svc EXCEPT !.Status = StatusDown]), statusEntry(t))

markDown(svc, t) ==
    addLog(recalcUptime([svc EXCEPT !.Status = StatusDown, !.TotalChecks = @ + 1]),
           statusEntry(t))

CheckTimeouts ==
    LET stale == {n \in DOMAIN services : isStale(services[n], now)}
    IN /\ ops < MaxOps
       /\ services' = [n \in DOMAIN services |->
                          IF n \in stale THEN markDown(services[n], now) ELSE services[n]]
       /\ downServices' = stale
       /\ appended' = [n \in DOMAIN appended |->
                          IF n \in stale THEN Append(appended[n], statusEntry(now))
                          ELSE appended[n]]
       /\ hist' = [n \in DOMAIN hist |->
                      IF n \in stale THEN [hist[n] EXCEPT !.downs = @ + 1] ELSE hist[n]]
       /\ ops' = ops + 1
       /\ swept' = Some(now)
       /\ UNCHANGED <<now, remAppended>>

remediationEntry(t, log) == LogEntry(t, "remediation", log, "", Nil)

\* Mutant: the remediation log is trimmed one entry late.
appendRemediationLogLate(svc, log, t) ==
    addLog([svc EXCEPT !.RemediationLog = LastN(Append(@, log), RemLogCap + 1)],
           remediationEntry(t, log))

appendRemediationLog(svc, log, t) ==
    addLog([svc EXCEPT !.RemediationLog = LastN(Append(@, log), RemLogCap)],
           remediationEntry(t, log))

\* The texts TriggerRemediation passes: the time, then what happened.
RemediationTexts ==
    { <<ToString(now), " - Remediation triggered: ", "boom">>,
      <<ToString(now), " - Remediation completed successfully">> }

AddRemediationLog(serviceName, log) ==
    /\ ops < MaxOps
    /\ IF serviceName \in DOMAIN services
       THEN /\ services' = [services EXCEPT
                               ![serviceName] = appendRemediationLog(@, log, now)]
            /\ appended' = [appended EXCEPT
                               ![serviceName] = Append(@, remediationEntry(now, log))]
            /\ remAppended' = [remAppended EXCEPT ![serviceName] = Append(@, log)]
       ELSE UNCHANGED <<services, appended, remAppended>>
    /\ ops' = ops + 1
    /\ UNCHANGED <<now, downServices, hist, swept>>

Tick ==
    /\ now < MaxTime
    /\ now' = now + 1
    /\ UNCHANGED <<regVars, ledVars, hubVars, triggers, replies, lockVars>>

\* ------------------------------------------------------------ WSHub
\* Client messages other than a failing read change nothing in the hub; the
\* pong replies to pings are left out.
MaxConns == 2        \* WebSocket connections in one behaviour

WSMessage(type, data) == [Type |-> type, Data |-> data]

\* Broadcast: under the hub's read lock, one goroutine per registered client is
\* started to write the envelope; the caller does not wait for them.
Broadcast(msgType, data) ==
    /\ wire' = wire \cup {[to |-> c, n |-> sent + 1, msg |-> WSMessage(msgType, data)] :
                              c \in clients}
    /\ sent' = sent + 1
    /\ UNCHANGED <<clients, conns>>

\* A connection: where its WSHandler is, the snapshot it took, the envelopes
\* it received, and (history) whether a broadcast write to it failed.
NewConn == [pc |-> "snapshot", services |-> <<>>, got |-> <<>>, failed |-> FALSE]

\* WSHandler, entry: AddClient.
AddClient(ws) ==
    /\ ws \notin DOMAIN conns
    /\ ws = Cardinality(DOMAIN conns) + 1
    /\ ws <= MaxConns
    /\ clients' = clients \cup {ws}
    /\ conns' = Put(conns, ws, NewConn)
    /\ UNCHANGED <<wire, sent>>

\* GetAllServices: copies of all the records (in the map's order, which is any).
GetAllServices == services

\* WSHandler: services := app.store.GetAllServices().
Snapshot(ws) ==
    /\ ws \in DOMAIN conns
    /\ conns[ws].pc = "snapshot"
    /\ conns' = [conns EXCEPT ![ws].pc = "init", ![ws].services = GetAllServices]
    /\ UNCHANGED <<clients, wire, sent>>

\* WSHandler: ws.Write of the "init" envelope; its error is not looked at.
WriteInit(ws) ==
    /\ ws \in DOMAIN conns
    /\ conns[ws].pc = "init"
    /\ \E ok \in BOOLEAN :
          conns' = [conns EXCEPT
                       ![ws].pc = "read",
                       ![ws].got = IF ok THEN Append(@, WSMessage("init", conns[ws].services))
                                   ELSE @]
    /\ UNCHANGED <<clients, wire, sent>>

\* WSHandler: ws.Read fails, the loop is left, and the deferred function
\* removes the client and closes the connection.
ReadError(ws) ==
    /\ ws \in DOMAIN conns
    /\ conns[ws].pc = "read"
    /\ clients' = clients \ {ws}
    /\ conns' = [conns EXCEPT ![ws].pc = "closed"]
    /\ UNCHANGED <<wire, sent>>

\* A Broadcast goroutine: c.Write succeeds.
Deliver(w) ==
    /\ w \in wire
    /\ conns[w.to].pc # "closed"
    /\ wire' = wire \ {w}
    /\ conns' = [conns EXCEPT ![w.to].got = Append(@, w.msg)]
    /\ UNCHANGED <<clients, sent>>

\* A Broadcast goroutine: c.Write fails, which is logged.
DeliverFail(w) ==
    /\ w \in wire
    /\ wire' = wire \ {w}
    /\ conns' = [conns EXCEPT ![w.to].failed = TRUE]
    /\ UNCHANGED <<clients, sent>>

\* ------------------------------------------------------------ HeartbeatHandler
\* A TriggerRemediation goroutine: the *Service it was given (the stored record
\* of that name), the error text, where it is, the id of the attempt it
\* started, and (history) the request that spawned it and the record as it was
\* when the goroutine was given it.
NewTrigger(req, given) ==
    [pc |-> "check", service |-> req.ServiceName, errorLog |-> req.ErrorLog,
     id |-> Nil, req |-> req, given |-> given]

\* What a trigger reads through the *Service it holds: RecordHeartbeat returned
\* the pointer that is in the map, not a copy.
Held(i) == services[triggers[i].service]

\* An HTTP request to the heartbeat endpoint: its method, and its body as
\* json.Decode reads it (Nil when the body does not decode).
HTTPRequest(method, body) == [Method |-> method, Body |-> body]
Post(req) == HTTPRequest("POST", Some(req))

\* The status HeartbeatHandler answers with: 405 unless the method is POST,
\* 400 for a body that does not decode or has no service_name, else 200.
heartbeatStatusAnyName(r) ==
    IF r.Method # "POST" THEN "StatusMethodNotAllowed"
    ELSE IF r.Body = Nil THEN "StatusBadRequest"
    ELSE "StatusOK"

heartbeatStatus(r) ==
    IF r.Method # "POST" THEN "StatusMethodNotAllowed"
    ELSE IF r.Body = Nil THEN "StatusBadRequest"
    ELSE IF r.Body[1].ServiceName = "" THEN "StatusBadRequest"
    ELSE "StatusOK"

\* Mutant: the broadcast is made before RecordHeartbeat, of the record as it
\* was.
HeartbeatHandlerBroadcastFirst(r) ==
    /\ replies' = Append(replies, heartbeatStatus(r))
    /\ IF heartbeatStatus(r) # "StatusOK"
       THEN UNCHANGED <<now, regVars, ledVars, hubVars, triggers>>
       ELSE LET req == r.Body[1]
            IN /\ RecordHeartbeat(req)
               /\ Broadcast("service_update",
                            IF req.ServiceName \in DOMAIN services
                            THEN services[req.ServiceName] ELSE NewService(req))
               /\ triggers' =
                      IF req.Status = "error" /\ req.ErrorLog # "" /\ req.GitHubRepo # ""
                      THEN Append(triggers, NewTrigger(req, services'[req.ServiceName]))
                      ELSE triggers
               /\ UNCHANGED ledVars
    /\ UNCHANGED lockVars

\* HeartbeatHandler: a request that is refused returns at once; else
\* RecordHeartbeat, BroadcastServiceUpdate of the record it returned and, for an
\* error with an error log and a repository, go TriggerRemediation.
HeartbeatHandler(r) ==
    /\ replies' = Append(replies, heartbeatStatus(r))
    /\ IF heartbeatStatus(r) # "StatusOK"
       THEN UNCHANGED <<now, regVars, ledVars, hubVars, triggers>>
       ELSE LET req == r.Body[1]
            IN /\ RecordHeartbeat(req)
               /\ Broadcast("service_update", services'[req.ServiceName])
               /\ triggers' =
                      IF req.Status = "error" /\ req.ErrorLog # "" /\ req.GitHubRepo # ""
                      THEN Append(triggers, NewTrigger(req, services'[req.ServiceName]))
                      ELSE triggers
               /\ UNCHANGED ledVars
    /\ UNCHANGED lockVars

\* ------------------------------------------------------------ RemediationStore
RemediationPending == "pending"
RemediationRunning == "running"
RemediationSuccess == "success"
RemediationFailed == "failed"
RemediationTimedOut == "timed_out"

Terminal(status) ==
    status \in {RemediationSuccess, RemediationFailed, RemediationTimedOut}

Remove(f, k) == [x \in DOMAIN f \ {k} |-> f[x]]

Ledger == [records |-> records, order |-> order]

\* now.Sub(record.StartTime).Round(time.Second).String()
DurationString(start, end) == ToString(end - start) \o "s"

NewRecord(id, serviceName, githubRepo, errorLog, t) ==
    [ID |-> id, ServiceName |-> serviceName, GitHubRepo |-> githubRepo,
     ErrorLog |-> errorLog, Status |-> RemediationPending,
     ContainerID |-> "", ContainerName |-> "", StartTime |-> t,
     EndTime |-> Nil, Duration |-> "", ExitCode |-> Nil,
     AgentReport |-> Nil, ErrorMessage |-> ""]

\* Mutant: the oldest record is evicted one Create late.
CreateEvictLate(L, id, serviceName, githubRepo, errorLog, t) ==
    LET recs == Put(L.records, id, NewRecord(id, serviceName, githubRepo, errorLog, t))
        ord == Append(L.order, id)
    IN IF Len(ord) > LedgerCap + 1
       THEN [records |-> Remove(recs, ord[1]), order |-> Tail(ord)]
       ELSE [records |-> recs, order |-> ord]

Create(L, id, serviceName, githubRepo, errorLog, t) ==
    LET recs == Put(L.records, id, NewRecord(id, serviceName, githubRepo, errorLog, t))
        ord == Append(L.order, id)
    IN IF Len(ord) > LedgerCap
       THEN [records |-> Remove(recs, ord[1]), order |-> Tail(ord)]
       ELSE [records |-> recs, order |-> ord]

\* Mutant: the container id and name are assigned whatever they are.
UpdateStatusBlank(L, id, status, containerID, containerName) ==
    IF id \in DOMAIN L.records
    THEN [L EXCEPT !.records[id] =
             [@ EXCEPT !.Status = status,
                       !.ContainerID = containerID,
                       !.ContainerName = containerName]]
    ELSE L

\* Mutant: an unknown id gets a record.
UpdateStatusUpsert(L, id, status, containerID, containerName) ==
    LET M == IF id \in DOMAIN L.records THEN L
             ELSE [L EXCEPT !.records = Put(@, id, NewRecord(id, "", "", "", 0))]
    IN [M EXCEPT !.records[id] =
           [@ EXCEPT !.Status = status,
                     !.ContainerID = IF containerID # "" THEN containerID ELSE @,
                     !.ContainerName = IF containerName # "" THEN containerName ELSE @]]

UpdateStatus(L, id, status, containerID, containerName) ==
    IF id \in DOMAIN L.records
    THEN [L EXCEPT !.records[id] =
             [@ EXCEPT !.Status = status,
                       !.ContainerID = IF containerID # "" THEN containerID ELSE @,
                       !.ContainerName = IF containerName # "" THEN containerName ELSE @]]
    ELSE L

\* Mutant: the duration is not stored.
CompleteNoDuration(L, id, success, exitCode, errorMsg, t) ==
    IF id \in DOMAIN L.records
    THEN [L EXCEPT !.records[id] =
             [@ EXCEPT !.EndTime = Some(t),
                       !.ExitCode = Some(exitCode),
                       !.ErrorMessage = errorMsg,
                       !.Status = IF success THEN RemediationSuccess
                                  ELSE RemediationFailed]]
    ELSE L

Complete(L, id, success, exitCode, errorMsg, t) ==
    IF id \in DOMAIN L.records
    THEN [L EXCEPT !.records[id] =
             [@ EXCEPT !.EndTime = Some(t),
                       !.Duration = DurationString(L.records[id].StartTime, t),
                       !.ExitCode = Some(exitCode),
                       !.ErrorMessage = errorMsg,
                       !.Status = IF success THEN RemediationSuccess
                                  ELSE RemediationFailed]]
    ELSE L

SetTimedOut(L, id, t) ==
    IF id \in DOMAIN L.records
    THEN [L EXCEPT !.records[id] =
             [@ EXCEPT !.EndTime = Some(t),
                       !.Duration = DurationString(L.records[id].StartTime, t),
                       !.Status = RemediationTimedOut,
                       !.ErrorMessage = "Remediation timed out after 10 minutes"]]
    ELSE L

\* Mutant: a report is attached only while the record is pending or running.
AddAgentReportWhileOpen(L, id, report) ==
    IF id \in DOMAIN L.records /\ ~Terminal(L.records[id].Status)
    THEN [L EXCEPT !.records[id] = [@ EXCEPT !.AgentReport = Some(report)]]
    ELSE L

AddAgentReport(L, id, report) ==
    IF id \in DOMAIN L.records
    THEN [L EXCEPT !.records[id] = [@ EXCEPT !.AgentReport = Some(report)]]
    ELSE L

\* The copy Get returns, or Nil when the id is unknown.
Get(L, id) == IF id \in DOMAIN L.records THEN Some(L.records[id]) ELSE Nil

Reverse(s) == [i \in 1..Len(s) |-> s[Len(s) - i + 1]]

\* The stored records in reverse insertion order.
newestFirst(L) ==
    LET present(id) == id \in DOMAIN L.records
        ids == SelectSeq(Reverse(L.order), present)
    IN [i \in 1..Len(ids) |-> L.records[ids[i]]]

GetAll(L) == newestFirst(L)

GetByService(L, serviceName) ==
    LET ofService(r) == r.ServiceName = serviceName
    IN SelectSeq(newestFirst(L), ofService)

\* ------------------------------------------------------------ RemediationService
Config(docker, pat, key) == [dockerClient |-> docker, githubPAT |-> pat, cerebrasKey |-> key]
ConfigOK == Config(TRUE, "ghp_x", "csk_x")

\* What NewRemediationService can find in its environment.
Configs ==
    { ConfigOK, Config(FALSE, "", ""), Config(TRUE, "", "csk_x"), Config(TRUE, "ghp_x", "") }

ExitCodes == {0, 137}

\* Mutant: the AI-agent credential is not checked.
missingPrerequisiteNoKey(c) ==
    IF ~c.dockerClient THEN "Docker client not available"
    ELSE IF c.githubPAT = "" THEN "GITHUB_PAT not set"
    ELSE ""

\* The message of the first missing prerequisite, "" when there is none.
missingPrerequisite(c) ==
    IF ~c.dockerClient THEN "Docker client not available"
    ELSE IF c.githubPAT = "" THEN "GITHUB_PAT not set"
    ELSE IF c.cerebrasKey = "" THEN "CEREBRAS_API_KEY not set"
    ELSE ""

containerNameOf(id) == "highline-fix-" \o ToString(id)
containerIdOf(id) == "ctr-" \o ToString(id)

\* A RunOpenCode invocation: where it is (pc), its context (ctx: none, live,
\* expired, or cancelled by the deferred cancel() on return), its sandbox (none, created, started, stopping), the number of
\* Complete/SetTimedOut calls it has made, and what it returned.
NewProc(repoURL, errorLog, serviceName) ==
    [pc |-> "validate", repoURL |-> repoURL, errorLog |-> errorLog,
     serviceName |-> serviceName, ctx |-> "none",
     sandbox |-> "none", streaming |-> FALSE, terminals |-> 0, ret |-> "none"]

SetLedger(L) == records' = L.records /\ order' = L.order

At(a, pc) == a \in DOMAIN procs /\ procs[a].pc = pc

\* Mutant: no new attempt for a service that has one in progress.
RunOpenCodeDeduplicated(repoURL, errorLog, serviceName) ==
    /\ Cardinality(DOMAIN procs) < MaxAttempts
    /\ \A a \in DOMAIN procs :
          procs[a].serviceName = serviceName => procs[a].pc = "done"
    /\ SetLedger(Create(Ledger, nextId, serviceName, repoURL, errorLog, now))
    /\ procs' = Put(procs, nextId, NewProc(repoURL, errorLog, serviceName))
    /\ created' = Append(created, nextId)
    /\ nextId' = nextId + 1
    /\ UNCHANGED <<config, reports, now, regVars>>

\* uuid.New().String()[:8] and store.Create.
RunOpenCode(repoURL, errorLog, serviceName) ==
    /\ Cardinality(DOMAIN procs) < MaxAttempts
    /\ SetLedger(Create(Ledger, nextId, serviceName, repoURL, errorLog, now))
    /\ procs' = Put(procs, nextId, NewProc(repoURL, errorLog, serviceName))
    /\ created' = Append(created, nextId)
    /\ nextId' = nextId + 1
    /\ UNCHANGED <<config, reports, now, regVars>>

\* The prerequisite checks, and context.WithTimeout when they pass.
Validate(a) ==
    /\ At(a, "validate")
    /\ IF missingPrerequisite(config) # ""
       THEN /\ SetLedger(Complete(Ledger, a, FALSE, -1, missingPrerequisite(config), now))
            /\ procs' = [procs EXCEPT ![a].pc = "done", ![a].ctx = "cancelled", ![a].ret = "error",
                                      ![a].terminals = @ + 1]
       ELSE /\ procs' = [procs EXCEPT ![a].pc = "pull", ![a].ctx = "live"]
            /\ UNCHANGED <<records, order>>
    /\ UNCHANGED <<config, nextId, reports, created, now, regVars>>

\* The 10 minute deadline of the attempt's context passes.
Deadline(a) ==
    /\ a \in DOMAIN procs
    /\ procs[a].ctx = "live"
    /\ procs[a].pc # "done"
    /\ procs' = [procs EXCEPT ![a].ctx = "expired"]
    /\ UNCHANGED <<config, records, order, nextId, reports, created, now, regVars>>

\* What a backend call made with the attempt's context can return.
callResults(a) == IF procs[a].ctx = "expired" THEN {"failed"} ELSE {"ok", "failed"}

\* Mutant: a failed pull ends the attempt as failed.
ImagePullFatal(a, res) ==
    /\ At(a, "pull")
    /\ IF res = "failed"
       THEN /\ SetLedger(Complete(Ledger, a, FALSE, -1, "Failed to pull image", now))
            /\ procs' = [procs EXCEPT ![a].pc = "done", ![a].ctx = "cancelled", ![a].ret = "error",
                                      ![a].terminals = @ + 1]
       ELSE /\ procs' = [procs EXCEPT ![a].pc = "mark_running"]
            /\ UNCHANGED <<records, order>>
    /\ UNCHANGED <<config, nextId, reports, created, now, regVars>>

\* dockerClient.ImagePull returning res: on an error a warning is logged, else
\* the reader is drained and closed; either way the attempt goes on.
ImagePullResult(a, res) ==
    /\ At(a, "pull")
    /\ IF res = "failed"
       THEN procs' = [procs EXCEPT ![a].pc = "mark_running"]
       ELSE procs' = [procs EXCEPT ![a].pc = "mark_running"]
    /\ UNCHANGED <<config, records, order, nextId, reports, created, now, regVars>>

\* dockerClient.ImagePull: a failure is logged and the attempt goes on.
ImagePull(a) ==
    \E res \in callResults(a) : ImagePullResult(a, res)

\* store.UpdateStatus(id, RemediationRunning, "", containerName), before the
\* container is created.
MarkRunning(a) ==
    /\ At(a, "mark_running")
    /\ SetLedger(UpdateStatus(Ledger, a, RemediationRunning, "", containerNameOf(a)))
    /\ procs' = [procs EXCEPT ![a].pc = "create"]
    /\ UNCHANGED <<config, nextId, reports, created, now, regVars>>

\* Mutant: the return after the failed creation is missing.
ContainerCreateNoReturn(a) ==
    /\ At(a, "create")
    /\ \E res \in callResults(a) :
          IF res = "failed"
          THEN /\ SetLedger(Complete(Ledger, a, FALSE, -1,
                                     "Failed to create container", now))
               /\ procs' = [procs EXCEPT ![a].pc = "mark_created",
                                         ![a].terminals = @ + 1]
          ELSE /\ procs' = [procs EXCEPT ![a].pc = "mark_created",
                                         ![a].sandbox = "created"]
               /\ UNCHANGED <<records, order>>
    /\ UNCHANGED <<config, nextId, reports, created, now, regVars>>

\* dockerClient.ContainerCreate, and Complete when it fails.
ContainerCreate(a) ==
    /\ At(a, "create")
    /\ \E res \in callResults(a) :
          IF res = "failed"
          THEN /\ SetLedger(Complete(Ledger, a, FALSE, -1,
                                     "Failed to create container", now))
               /\ procs' = [procs EXCEPT ![a].pc = "done", ![a].ctx = "cancelled", ![a].ret = "error",
                                         ![a].terminals = @ + 1]
          ELSE /\ procs' = [procs EXCEPT ![a].pc = "mark_created",
                                         ![a].sandbox = "created"]
               /\ UNCHANGED <<records, order>>
    /\ UNCHANGED <<config, nextId, reports, created, now, regVars>>

\* store.UpdateStatus(id, RemediationRunning, resp.ID, containerName).
MarkCreated(a) ==
    /\ At(a, "mark_created")
    /\ SetLedger(UpdateStatus(Ledger, a, RemediationRunning, containerIdOf(a),
                              containerNameOf(a)))
    /\ procs' = [procs EXCEPT ![a].pc = "write_id"]
    /\ UNCHANGED <<config, nextId, reports, created, now, regVars>>

\* record.ContainerID = resp.ID: a write, without the store's lock, to the record
\* Create returned, which is the stored record while it is not evicted.
WriteContainerID(a) ==
    /\ At(a, "write_id")
    /\ records' = IF a \in DOMAIN records
                  THEN [records EXCEPT ![a].ContainerID = containerIdOf(a)]
                  ELSE records
    /\ procs' = [procs EXCEPT ![a].pc = "start"]
    /\ UNCHANGED <<config, order, nextId, reports, created, now, regVars>>

\* Mutant: after the failed start the attempt goes on to stream and wait.
ContainerStartNoReturn(a) ==
    /\ At(a, "start")
    /\ \E res \in callResults(a) :
          IF res = "failed"
          THEN /\ SetLedger(Complete(Ledger, a, FALSE, -1,
                                     "Failed to start container", now))
               /\ procs' = [procs EXCEPT ![a].pc = "wait", ![a].streaming = TRUE,
                                         ![a].terminals = @ + 1]
          ELSE /\ procs' = [procs EXCEPT ![a].pc = "wait", ![a].sandbox = "started",
                                         ![a].streaming = TRUE]
               /\ UNCHANGED <<records, order>>
    /\ UNCHANGED <<config, nextId, reports, created, now, regVars>>

\* dockerClient.ContainerStart, and Complete when it fails; on success the log
\* streaming goroutine is started.
ContainerStart(a) ==
    /\ At(a, "start")
    /\ \E res \in callResults(a) :
          IF res = "failed"
          THEN /\ SetLedger(Complete(Ledger, a, FALSE, -1,
                                     "Failed to start container", now))
               /\ procs' = [procs EXCEPT ![a].pc = "done", ![a].ctx = "cancelled", ![a].ret = "error",
                                         ![a].terminals = @ + 1]
          ELSE /\ procs' = [procs EXCEPT ![a].pc = "wait", ![a].sandbox = "started",
                                         ![a].streaming = TRUE]
               /\ UNCHANGED <<records, order>>
    /\ UNCHANGED <<config, nextId, reports, created, now, regVars>>

\* case err := <-errCh, with a non-nil error.
WaitError(a) ==
    /\ At(a, "wait")
    /\ SetLedger(Complete(Ledger, a, FALSE, -1, "Error waiting", now))
    /\ procs' = [procs EXCEPT ![a].pc = "done", ![a].ctx = "cancelled", ![a].ret = "error",
                              ![a].terminals = @ + 1]
    /\ UNCHANGED <<config, nextId, reports, created, now, regVars>>

\* case err := <-errCh, with a nil error: the select is left and nil returned.
WaitNilError(a) ==
    /\ At(a, "wait")
    /\ procs' = [procs EXCEPT ![a].pc = "done", ![a].ctx = "cancelled", ![a].ret = "nil"]
    /\ UNCHANGED <<config, records, order, nextId, reports, created, now, regVars>>

\* case status := <-statusCh.
WaitStatus(a) ==
    /\ At(a, "wait")
    /\ \E code \in ExitCodes :
          /\ SetLedger(Complete(Ledger, a, code = 0, code, "", now))
          /\ procs' = [procs EXCEPT ![a].pc = "done", ![a].ctx = "cancelled",
                                    ![a].ret = IF code = 0 THEN "nil" ELSE "error",
                                    ![a].terminals = @ + 1]
    /\ UNCHANGED <<config, nextId, reports, created, now, regVars>>

\* case <-ctx.Done().
WaitDeadline(a) ==
    /\ At(a, "wait")
    /\ procs[a].ctx = "expired"
    /\ SetLedger(SetTimedOut(Ledger, a, now))
    /\ procs' = [procs EXCEPT ![a].pc = "stop", ![a].terminals = @ + 1]
    /\ UNCHANGED <<config, nextId, reports, created, now, regVars>>

\* dockerClient.ContainerStop with a 10 second grace period.
ContainerStop(a) ==
    /\ At(a, "stop")
    /\ procs' = [procs EXCEPT ![a].pc = "done", ![a].ctx = "cancelled", ![a].ret = "error",
                              ![a].sandbox = "stopping"]
    /\ UNCHANGED <<config, records, order, nextId, reports, created, now, regVars>>

AgentReport(id, success, t) ==
    [RemediationID |-> id, Success |-> success, Timestamp |-> t]

\* RemediationReportHandler: report.Timestamp = time.Now(), AddAgentReport, and a
\* "remediation_update" broadcast of the record when Get finds it.
RemediationReportHandler(id, success) ==
    LET L == AddAgentReport(Ledger, id, AgentReport(id, success, now))
    IN /\ reports < MaxReports
       /\ SetLedger(L)
       /\ IF Get(L, id) # Nil
          THEN Broadcast("remediation_update", Get(L, id)[1])
          ELSE UNCHANGED hubVars
       /\ reports' = reports + 1
       /\ UNCHANGED <<config, procs, nextId, created, now, regVars, triggers, replies, lockVars>>

\* ------------------------------------------------------------ ledger and orchestrator
\* The three locks, none held: the writer (0 for none), the readers, and the
\* threads waiting in Lock.
FreeLock == [w |-> 0, r |-> {}, q |-> {}]
FreeLocks == [store |-> FreeLock, ledger |-> FreeLock, hub |-> FreeLock]

\* No connection, no broadcast, no trigger, no request answered and no thread
\* inside a locked method yet.
IdleHub ==
    /\ clients = {}
    /\ conns = <<>>
    /\ wire = {}
    /\ sent = 0
    /\ triggers = <<>>
    /\ replies = <<>>
    /\ thr = <<>>
    /\ mu = FreeLocks
    /\ serial = <<>>

InitLedger ==
    /\ now = 0
    /\ services = <<>>
    /\ downServices = {}
    /\ ops = 0
    /\ appended = <<>>
    /\ remAppended = <<>>
    /\ hist = <<>>
    /\ swept = Nil
    /\ IdleHub
    /\ config \in Configs
    /\ records = <<>>
    /\ order = <<>>
    /\ procs = <<>>
    /\ nextId = 1
    /\ reports = 0
    /\ created = <<>>

\* The ids agents report on: those of this behaviour's attempts, the oldest id
\* ever created (the first to be evicted) and one that was not created yet.
ReportIds ==
    DOMAIN procs \cup {nextId} \cup (IF created = <<>> THEN {} ELSE {created[1]})

\* RunOpenCode touches neither the hub nor the trigger goroutines.
AttemptFrame == UNCHANGED <<hubVars, triggers, replies, lockVars>>

\* One step of one RunOpenCode invocation.
NextAttempt ==
    \/ \E a \in DOMAIN procs : Validate(a) /\ AttemptFrame
    \/ \E a \in DOMAIN procs : Deadline(a) /\ AttemptFrame
    \/ \E a \in DOMAIN procs : ImagePull(a) /\ AttemptFrame
    \/ \E a \in DOMAIN procs : MarkRunning(a) /\ AttemptFrame
    \/ \E a \in DOMAIN procs : ContainerCreate(a) /\ AttemptFrame
    \/ \E a \in DOMAIN procs : MarkCreated(a) /\ AttemptFrame
    \/ \E a \in DOMAIN procs : WriteContainerID(a) /\ AttemptFrame
    \/ \E a \in DOMAIN procs : ContainerStart(a) /\ AttemptFrame
    \/ \E a \in DOMAIN procs : WaitError(a) /\ AttemptFrame
    \/ \E a \in DOMAIN procs : WaitNilError(a) /\ AttemptFrame
    \/ \E a \in DOMAIN procs : WaitStatus(a) /\ AttemptFrame
    \/ \E a \in DOMAIN procs : WaitDeadline(a) /\ AttemptFrame
    \/ \E a \in DOMAIN procs : ContainerStop(a) /\ AttemptFrame

\* A step of the invocation with id a.
AttemptStep(a) ==
    \/ Validate(a) \/ Deadline(a) \/ ImagePull(a) \/ MarkRunning(a)
    \/ ContainerCreate(a) \/ MarkCreated(a) \/ WriteContainerID(a)
    \/ ContainerStart(a) \/ WaitError(a) \/ WaitNilError(a) \/ WaitStatus(a)
    \/ WaitDeadline(a) \/ ContainerStop(a)

NextLedger ==
    \/ (\E n \in {"svc-a"} : RunOpenCode("https://example/x/y", "boom", n))
           /\ UNCHANGED <<hubVars, triggers, replies, lockVars>>
    \/ NextAttempt
    \/ \E id \in ReportIds, success \in BOOLEAN : RemediationReportHandler(id, success)

SpecLedger == InitLedger /\ [][NextLedger]_vars

\* ------------------------------------------------------------ the ledger near its cap
\* The ledger after LedgerCap - LedgerGap attempts that all ended in success at
\* time 0, alternating between the two services.
InitLedgerFull ==
    LET n == LedgerCap - LedgerGap
        rec(i) == [NewRecord(i, IF i % 2 = 0 THEN "svc-a" ELSE "svc-b",
                             "https://example/x/y", "boom", 0)
                      EXCEPT !.Status = RemediationSuccess,
                             !.ContainerID = containerIdOf(i),
                             !.ContainerName = containerNameOf(i),
                             !.EndTime = Some(0),
                             !.Duration = DurationString(0, 0),
                             !.ExitCode = Some(0)]
    IN /\ now = 0
       /\ services = <<>>
       /\ downServices = {}
       /\ ops = 0
       /\ appended = <<>>
       /\ remAppended = <<>>
       /\ hist = <<>>
       /\ swept = Nil
       /\ IdleHub
       /\ config = ConfigOK
       /\ records = [i \in 1..n |-> rec(i)]
       /\ order = [i \in 1..n |-> i]
       /\ procs = <<>>
       /\ nextId = n + 1
       /\ reports = 0
       /\ created = [i \in 1..n |-> i]

\* Attempts only: agent reports change neither the order nor the membership.
NextLedgerFull ==
    \/ (\E n \in Names : RunOpenCode("https://example/x/y", "boom", n))
           /\ UNCHANGED <<hubVars, triggers, replies, lockVars>>
    \/ NextAttempt

SpecLedgerFull == InitLedgerFull /\ [][NextLedgerFull]_vars

\* A ledger nothing was created in, with every prerequisite configured.
IdleLedger ==
    /\ config = ConfigOK
    /\ records = <<>>
    /\ order = <<>>
    /\ procs = <<>>
    /\ nextId = 1
    /\ reports = 0
    /\ created = <<>>

InitRegistry ==
    /\ IdleLedger
    /\ now = 0
    /\ services = <<>>
    /\ downServices = {}
    /\ ops = 0
    /\ appended = <<>>
    /\ remAppended = <<>>
    /\ hist = <<>>
    /\ swept = Nil
    /\ IdleHub

NextRegistry ==
    \/ Tick
    \/ (\E req \in HeartbeatRequests : RecordHeartbeat(req))
           /\ UNCHANGED <<ledVars, hubVars, triggers, replies, lockVars>>
    \/ CheckTimeouts /\ UNCHANGED <<ledVars, hubVars, triggers, replies, lockVars>>
    \/ (\E n \in Names, log \in RemediationTexts : AddRemediationLog(n, log))
           /\ UNCHANGED <<ledVars, hubVars, triggers, replies, lockVars>>

SpecRegistry == InitRegistry /\ [][NextRegistry]_vars

\* ------------------------------------------------------------ the registry near its caps
\* svc-a after a run of healthy heartbeats followed by some remediation entries,
\* all at time 0: its structured log and its remediation log are PrefillGap
\* entries short of their caps.
SeasonedService ==
    LET req == HeartbeatRequest("svc-a", "https://example/x/y", "healthy", "", Nil)
        log == <<"0", " - Remediation completed successfully">>
        rems == RemLogCap - PrefillGap
        beats == LogCap - PrefillGap - rems
    IN recalcUptime(
         [NewService(req) EXCEPT
            !.Status = StatusHealthy,
            !.TotalChecks = beats,
            !.SuccessChecks = beats,
            !.RemediationLog = [i \in 1..rems |-> log],
            !.Logs = [i \in 1..beats |-> heartbeatEntry(req, 0)]
                     \o [i \in 1..rems |-> remediationEntry(0, log)]])

InitRegistryFull ==
    /\ IdleLedger
    /\ now = 0
    /\ services = [n \in {"svc-a"} |-> SeasonedService]
    /\ downServices = {}
    /\ ops = 0
    /\ appended = [n \in {"svc-a"} |-> SeasonedService.Logs]
    /\ remAppended = [n \in {"svc-a"} |-> SeasonedService.RemediationLog]
    /\ hist = [n \in {"svc-a"} |->
                  [hb |-> SeasonedService.TotalChecks,
                   healthy |-> SeasonedService.SuccessChecks, downs |-> 0]]
    /\ swept = Nil
    /\ IdleHub

SpecRegistryFull == InitRegistryFull /\ [][NextRegistry]_vars

\* ------------------------------------------------------------ properties
SameRatio(u, success, total) == u.num * total = success * 100 * u.den

\* C1: in every reachable registry state every service record has
\* successChecks <= totalChecks and uptimePercent * totalChecks = successChecks * 100,
\* whatever the interleaving of RecordHeartbeat, CheckTimeouts and AddRemediationLog.
C1_UptimeInvariant ==
    \A n \in DOMAIN services :
        /\ services[n].SuccessChecks <= services[n].TotalChecks
        /\ services[n].TotalChecks > 0
        /\ SameRatio(services[n].UptimePercent,
                     services[n].SuccessChecks, services[n].TotalChecks)

\* A service that was healthy, was swept down and got a remediation entry.
C1_Witness ==
    \E n \in DOMAIN services :
        /\ services[n].Status = StatusDown
        /\ services[n].SuccessChecks >= 1
        /\ Len(services[n].RemediationLog) >= 1

\* C2: after N heartbeats of which k were healthy and D sweep-induced down
\* transitions, successChecks = k and totalChecks = N + D, so uptime is
\* k / (N + D) * 100, which is k / N * 100 when no sweep marked the service down.
C2_UptimeCounts ==
    \A n \in DOMAIN services :
        /\ services[n].SuccessChecks = hist[n].healthy
        /\ services[n].TotalChecks = hist[n].hb + hist[n].downs
        /\ SameRatio(services[n].UptimePercent, hist[n].healthy,
                     hist[n].hb + hist[n].downs)

\* Two heartbeats, one of them healthy, with a down transition in between.
C2_Witness ==
    \E n \in DOMAIN services :
        /\ hist[n].hb = 2 /\ hist[n].healthy = 1 /\ hist[n].downs = 1
        /\ services[n].Status # StatusDown

C3_Post(req) ==
    LET n == req.ServiceName
        known == n \in DOMAIN services
        total0 == IF known THEN services[n].TotalChecks ELSE 0
        success0 == IF known THEN services[n].SuccessChecks ELSE 0
    IN /\ n \in DOMAIN services'
       /\ services'[n].GitHubRepo = req.GitHubRepo
       /\ services'[n].TotalChecks = total0 + 1
       /\ services'[n].UptimePercent =
              Percent(services'[n].SuccessChecks, services'[n].TotalChecks)
       /\ IF req.Status = "healthy"
          THEN /\ services'[n].Status = StatusHealthy
               /\ services'[n].SuccessChecks = success0 + 1
               /\ services'[n].LastError = ""
          ELSE /\ services'[n].Status = StatusError
               /\ services'[n].SuccessChecks = success0
               /\ services'[n].LastError = req.ErrorLog

\* C3: RecordHeartbeat on any service, new or existing and whatever its status,
\* sets repo to the request's repo (also when empty) and adds one to totalChecks;
\* status "healthy" makes the record healthy, adds one to successChecks and clears
\* lastError; any other status makes it error with lastError the request's error
\* text and successChecks unchanged.
C3_HeartbeatEffect ==
    [][\A req \in HeartbeatRequests : RecordHeartbeat(req) => C3_Post(req)]_vars

\* healthy, then error "boom": status error, uptime 50, last error "boom".
C3_Witness ==
    /\ "svc-a" \in DOMAIN services
    /\ services["svc-a"].Status = StatusError
    /\ services["svc-a"].LastError = "boom"
    /\ services["svc-a"].UptimePercent = [num |-> 50, den |-> 1]
    /\ services["svc-a"].GitHubRepo = "https://example/x/y"

\* C4: a structured log never holds more than 100 entries, and it is always the
\* last 100 of the entries appended to it, in the order they were appended.
C4_LogRing ==
    \A n \in DOMAIN services :
        /\ Len(services[n].Logs) <= LogCap
        /\ services[n].Logs = LastN(appended[n], LogCap)

\* More than 100 entries were appended, by a heartbeat, a sweep and a
\* remediation entry.
C4_Witness ==
    \E n \in DOMAIN services :
        /\ Len(appended[n]) > LogCap
        /\ \A type \in {"heartbeat", "status", "remediation"} :
               \E i \in (LogCap - PrefillGap + 1)..Len(appended[n]) :
                   appended[n][i].Type = type

\* C5: a remediation log never holds more than 10 entries and is always the last
\* 10 texts AddRemediationLog appended, in call order; AddRemediationLog for an
\* unknown service changes nothing.
C5_RemediationLogRing ==
    /\ [](\A n \in DOMAIN services :
             /\ Len(services[n].RemediationLog) <= RemLogCap
             /\ services[n].RemediationLog = LastN(remAppended[n], RemLogCap))
    /\ [][\A n \in Names, log \in RemediationTexts :
             (AddRemediationLog(n, log) /\ n \notin DOMAIN services)
                 => UNCHANGED <<services, downServices>>]_vars

\* More than 10 texts were appended to one service's remediation log.
C5_Witness ==
    \E n \in DOMAIN services :
        /\ Len(remAppended[n]) > RemLogCap
        /\ remAppended[n][Len(remAppended[n])] # remAppended[n][Len(remAppended[n]) - 1]

Min(a, b) == IF a < b THEN a ELSE b

\* C6: after n Create calls with distinct ids GetAll returns min(n, 100) records,
\* the most recently created ones, newest first, whatever service each belongs
\* to; with n = 101 the first created id is absent.
C6_GetAllNewest ==
    LET all == GetAll(Ledger)
        n == Len(created)
    IN /\ Len(all) = Min(n, LedgerCap)
       /\ \A i \in 1..Len(all) : all[i].ID = created[n - i + 1]

\* 101 records were created, for both services, and the first is gone.
C6_Witness ==
    /\ Len(created) = LedgerCap + 1
    /\ Get(Ledger, created[1]) = Nil
    /\ Len(GetAll(Ledger)) = LedgerCap
    /\ GetByService(Ledger, "svc-a") # <<>>
    /\ GetByService(Ledger, "svc-b") # <<>>
    /\ GetAll(Ledger)[1].ServiceName = GetAll(Ledger)[2].ServiceName

\* Every record a getter can return.
Returned ==
    {GetAll(Ledger)[i] : i \in 1..Len(GetAll(Ledger))}
    \cup UNION {{GetByService(Ledger, n)[i] : i \in 1..Len(GetByService(Ledger, n))} :
                   n \in Names}
    \cup UNION {{Get(Ledger, id)[i] : i \in 1..Len(Get(Ledger, id))} : id \in 1..nextId}

\* C7: every record returned by Get, GetAll or GetByService has a terminal status
\* (success, failed, timed_out) if and only if its end-time, duration and exit
\* code are all populated.
C7_SelfConsistent ==
    \A r \in Returned :
        Terminal(r.Status) <=> (r.EndTime # Nil /\ r.Duration # "" /\ r.ExitCode # Nil)

C9_ExactlyOneTerminal ==
    \A a \in DOMAIN procs :
        /\ procs[a].terminals <= 1
        /\ procs[a].pc = "done" => procs[a].terminals = 1

\* C10: a record's status is running only once its sandbox was created and its
\* start call has returned successfully; until then it stays pending.
C10_RunningOnlyAfterStart ==
    \A a \in DOMAIN procs \cap DOMAIN records :
        /\ records[a].Status = RemediationRunning
               => procs[a].sandbox \in {"started", "stopping"}
        /\ procs[a].pc \in {"validate", "pull", "mark_running", "create",
                            "mark_created", "write_id", "start"}
               => records[a].Status = RemediationPending

\* C11: when the sandbox backend, the source-control credential or the AI-agent
\* credential is missing, an attempt goes from pending straight to failed with
\* exit code -1 and the message of the first missing prerequisite, returns an
\* error, and never reaches the pull, the creation or the start; its record is
\* never running.
C11_MissingPrerequisite ==
    LET msg == IF ~config.dockerClient THEN "Docker client not available"
               ELSE IF config.githubPAT = "" THEN "GITHUB_PAT not set"
               ELSE "CEREBRAS_API_KEY not set"
        missing == ~config.dockerClient \/ config.githubPAT = ""
                       \/ config.cerebrasKey = ""
    IN missing =>
         \A a \in DOMAIN procs :
            /\ procs[a].pc \in {"validate", "done"}
            /\ procs[a].sandbox = "none"
            /\ ~procs[a].streaming
            /\ procs[a].pc = "done" => procs[a].ret = "error"
            /\ a \in DOMAIN records =>
                  IF procs[a].pc = "validate"
                  THEN records[a].Status = RemediationPending
                  ELSE /\ records[a].Status = RemediationFailed
                       /\ records[a].ExitCode = Some(-1)
                       /\ records[a].ErrorMessage = msg
                       /\ records[a].EndTime # Nil

\* With only the AI-agent credential missing, one attempt has failed and another
\* is still pending.
C11_Witness ==
    /\ config.dockerClient /\ config.githubPAT # "" /\ config.cerebrasKey = ""
    /\ \E a \in DOMAIN procs, b \in DOMAIN procs :
          /\ procs[a].pc = "done"
          /\ records[a].Status = RemediationFailed
          /\ records[a].ErrorMessage = "CEREBRAS_API_KEY not set"
          /\ procs[b].pc = "validate"

C12_Post ==
    LET stale == {n \in DOMAIN services :
                     /\ services[n].Status # "down"
                     /\ now - services[n].LastHeartbeat > Timeout}
        entry == [Timestamp |-> now, Type |-> "status",
                  Message |-> <<"Service marked as DOWN - heartbeat timeout">>,
                  EventType |-> "", Details |-> Nil]
    IN /\ downServices' = stale
       /\ DOMAIN services' = DOMAIN services
       /\ \A n \in DOMAIN services :
             IF n \in stale
             THEN /\ services'[n] =
                        [services[n] EXCEPT
                            !.Status = "down",
                            !.TotalChecks = @ + 1,
                            !.UptimePercent = Percent(services[n].SuccessChecks,
                                                      services[n].TotalChecks + 1),
                            !.Logs = LastN(Append(@, entry), LogCap)]
                  /\ appended'[n] = Append(appended[n], entry)
             ELSE /\ services'[n] = services[n]
                  /\ appended'[n] = appended[n]

\* C12: a sweep changes exactly the records that are not down and whose last
\* heartbeat is older than the threshold: each gets status down, one more total
\* check with the successful checks unchanged, one appended "status" log entry
\* and its uptime recomputed, and is in the newly-down set; every other record
\* is left as it was and is not in the set.
C12_SweepEffect == [][CheckTimeouts => C12_Post]_vars

\* A sweep marked svc-a down and left svc-b, whose heartbeat is recent, alone.
C12_Witness ==
    /\ downServices = {"svc-a"}
    /\ services["svc-a"].Status = StatusDown
    /\ "svc-b" \in DOMAIN services
    /\ services["svc-b"].Status # StatusDown

\* C13 as worded, whatever time passes between two sweeps: a sweep that
\* follows a sweep with no heartbeat in between returns an empty newly-down set
\* and changes no record, and a record that is down is left alone by every sweep.
C13_SecondSweepAnyTime ==
    [][CheckTimeouts =>
          /\ swept # Nil => (downServices' = {} /\ services' = services)
          /\ \A n \in DOMAIN services :
                services[n].Status = StatusDown =>
                    (services'[n] = services[n] /\ n \notin downServices')]_vars

\* C13: a sweep that follows a sweep with no heartbeat and no advance of the
\* clock in between returns an empty newly-down set and changes no record; a
\* record that is down is left unchanged by, and is absent from the result of,
\* every sweep for as long as it stays down.
C13_SweepIdempotent ==
    [][CheckTimeouts =>
          /\ swept = Some(now) => (downServices' = {} /\ services' = services)
          /\ \A n \in DOMAIN services :
                services[n].Status = StatusDown =>
                    (services'[n] = services[n] /\ n \notin downServices')]_vars

\* Two sweeps at the first moment svc-a is stale: the first marked it down, the
\* second returned nothing.
C13_Witness ==
    /\ now = Timeout + 1
    /\ swept = Some(now)
    /\ ops = 3
    /\ downServices = {}
    /\ "svc-a" \in DOMAIN services
    /\ services["svc-a"].Status = StatusDown
    /\ hist["svc-a"].hb = 1 /\ hist["svc-a"].downs = 1
    /\ remAppended["svc-a"] = <<>>

\* ------------------------------------------------------------ the hub and the heartbeat handler
MaxBroadcasts == 2   \* Broadcast calls in one behaviour of the hub

\* Heartbeats that start no remediation: a healthy one and an error without
\* an error log.
QuietRequests ==
    {req \in HeartbeatRequests :
        /\ ~(req.Status = "error" /\ req.ErrorLog # "" /\ req.GitHubRepo # "")
        /\ req.GitHubRepo # ""}

NextHub ==
    \/ (\E ws \in 1..MaxConns : AddClient(ws))
           /\ UNCHANGED <<now, regVars, ledVars, triggers, replies, lockVars>>
    \/ (\E ws \in DOMAIN conns : Snapshot(ws))
           /\ UNCHANGED <<now, regVars, ledVars, triggers, replies, lockVars>>
    \/ (\E ws \in DOMAIN conns : WriteInit(ws))
           /\ UNCHANGED <<now, regVars, ledVars, triggers, replies, lockVars>>
    \/ (\E ws \in DOMAIN conns : ReadError(ws))
           /\ UNCHANGED <<now, regVars, ledVars, triggers, replies, lockVars>>
    \/ sent < MaxBroadcasts /\ \E req \in QuietRequests : HeartbeatHandler(Post(req))
    \/ (\E w \in wire : Deliver(w))
           /\ UNCHANGED <<now, regVars, ledVars, triggers, replies, lockVars>>
    \/ (\E w \in wire : DeliverFail(w))
           /\ UNCHANGED <<now, regVars, ledVars, triggers, replies, lockVars>>

SpecHub == InitRegistry /\ [][NextHub]_vars

\* C14: the first envelope a subscriber receives is the init snapshot; no
\* service_update or remediation_update reaches it before, however its
\* subscription interleaves with Broadcast calls.
C14_InitFirst ==
    \A ws \in DOMAIN conns :
        conns[ws].got # <<>> => conns[ws].got[1].Type = "init"

\* C15: once the delivery of a broadcast envelope to a subscriber has failed, no
\* later Broadcast starts a delivery to that subscriber.
C15_FailedIsDropped ==
    [][\A ws \in DOMAIN conns :
          conns[ws].failed => \A w \in wire' \ wire : w.to # ws]_vars

\* ------------------------------------------------------------ the ledger's methods, called directly
\* The ids the calls are addressed to: the oldest id ever created (the first to
\* be evicted), the ids created in this behaviour, and one never created.
TargetIds ==
    {created[1], nextId} \cup {id \in DOMAIN records : id > LedgerCap - LedgerGap}

\* Arguments of Complete: (success, exitCode, errorMsg).
Completions ==
    { <<TRUE, 0, "">>, <<FALSE, 137, "oom">>, <<FALSE, -1, "Docker client not available">> }

StoreCreate(serviceName) ==
    /\ ops < MaxOps
    /\ SetLedger(Create(Ledger, nextId, serviceName, "https://example/x/y", "boom", now))
    /\ created' = Append(created, nextId)
    /\ nextId' = nextId + 1
    /\ ops' = ops + 1
    /\ UNCHANGED <<config, procs, reports>>

StoreUpdateStatus(id) ==
    /\ ops < MaxOps
    /\ SetLedger(UpdateStatus(Ledger, id, RemediationRunning, "", containerNameOf(id)))
    /\ ops' = ops + 1
    /\ UNCHANGED <<config, procs, nextId, reports, created>>

StoreComplete(id, c) ==
    /\ ops < MaxOps
    /\ SetLedger(Complete(Ledger, id, c[1], c[2], c[3], now))
    /\ ops' = ops + 1
    /\ UNCHANGED <<config, procs, nextId, reports, created>>

StoreSetTimedOut(id) ==
    /\ ops < MaxOps
    /\ SetLedger(SetTimedOut(Ledger, id, now))
    /\ ops' = ops + 1
    /\ UNCHANGED <<config, procs, nextId, reports, created>>

\* The calls leave the registry, the hub and the clock alone (the clock stands
\* still in this specification).
StoreFrame ==
    UNCHANGED <<now, services, downServices, appended, remAppended, hist, swept,
                hubVars, triggers, replies, lockVars>>

NextStore ==
    \/ (\E n \in Names : StoreCreate(n)) /\ StoreFrame
    \/ (\E id \in TargetIds : StoreUpdateStatus(id)) /\ StoreFrame
    \/ (\E id \in TargetIds, c \in Completions : StoreComplete(id, c)) /\ StoreFrame
    \/ (\E id \in TargetIds : StoreSetTimedOut(id)) /\ StoreFrame
    \/ \E id \in TargetIds, success \in BOOLEAN : RemediationReportHandler(id, success)

SpecStore == InitLedgerFull /\ [][NextStore]_vars

\* ------------------------------------------------------------ Complete, direct and from an attempt
\* One attempt of the orchestrator beside direct Create calls and Complete calls
\* on the records so created, with the clock running, from an empty ledger.
NextOutcome ==
    \/ Tick
    \/ StoreCreate("svc-b") /\ StoreFrame
    \/ (\E id \in DOMAIN records \ DOMAIN procs, c \in Completions :
            StoreComplete(id, c)) /\ StoreFrame
    \/ (procs = <<>> /\ RunOpenCode("https://example/x/y", "boom", "svc-a"))
           /\ UNCHANGED <<hubVars, triggers, replies, lockVars>>
    \/ NextAttempt

SpecOutcome == InitRegistry /\ [][NextOutcome]_vars

\* C16: AddAgentReport on an existing record attaches the report whatever the
\* record's status, and leaves the status, end-time, duration, exit code and
\* error message (and every other record) as they were; the handler then
\* broadcasts the record.
C16_ReportAttaches ==
    [][\A id \in TargetIds \cap DOMAIN records, success \in BOOLEAN :
          RemediationReportHandler(id, success) =>
              /\ records' = [records EXCEPT
                                ![id].AgentReport =
                                    Some([RemediationID |-> id, Success |-> success,
                                          Timestamp |-> now])]
              /\ order' = order
              /\ sent' = sent + 1]_vars

\* A report attached to a record that had already failed with exit code 137.
C16_Witness ==
    \E id \in DOMAIN records :
        /\ records[id].AgentReport # Nil
        /\ records[id].Status = RemediationFailed
        /\ records[id].ExitCode = Some(137)
        /\ records[id].ErrorMessage = "oom"

\* C17: a ledger mutation addressed to an unknown id (never created, or already
\* evicted) leaves the whole ledger unchanged: UpdateStatus, Complete and
\* SetTimedOut create no record, and after AddAgentReport found nothing the
\* report handler broadcasts nothing.
C17_UnknownIdNoOp ==
    [][\A id \in TargetIds :
          (/\ id \notin DOMAIN records
           /\ \/ StoreUpdateStatus(id)
              \/ \E c \in Completions : StoreComplete(id, c)
              \/ StoreSetTimedOut(id)
              \/ \E success \in BOOLEAN : RemediationReportHandler(id, success))
          => UNCHANGED <<records, order, hubVars>>]_vars

\* The oldest record was evicted and a report then arrived that matched no
\* record: nothing is attached and nothing was broadcast.
C17_Witness ==
    /\ created[1] \notin DOMAIN records
    /\ reports = 1
    /\ sent = 0
    /\ \A id \in DOMAIN records : records[id].AgentReport = Nil

\* C18: when the attempt's deadline has passed before the attempt finished, the
\* terminal transition it makes is to timed_out with the fixed timeout message,
\* never to failed, and a sandbox that was created is asked to stop before the
\* attempt returns.
C18_DeadlineMeansTimedOut ==
    [][\A a \in DOMAIN procs :
          procs[a].ctx = "expired" =>
              /\ (procs'[a].terminals = procs[a].terminals + 1 /\ a \in DOMAIN records')
                     => /\ records'[a].Status = RemediationTimedOut
                        /\ records'[a].ErrorMessage =
                               "Remediation timed out after 10 minutes"
              /\ (procs'[a].pc = "done" /\ procs[a].pc # "done"
                      /\ procs[a].sandbox # "none")
                     => procs'[a].sandbox = "stopping"]_vars

\* C19: Complete on an existing record sets status success when success is true
\* and failed otherwise, and stores the exit code, the message, the end-time
\* and the duration; when the exit status arrives first in the wait, the
\* attempt completes its record with the sandbox's exit code, as success
\* exactly when that code is 0.
C19_CompleteEffect ==
    [][/\ \A id \in DOMAIN records, c \in Completions :
             StoreComplete(id, c) =>
                 records' = [records EXCEPT
                     ![id].Status = IF c[1] THEN "success" ELSE "failed",
                     ![id].ExitCode = <<c[2]>>,
                     ![id].ErrorMessage = c[3],
                     ![id].EndTime = <<now>>,
                     ![id].Duration = ToString(now - records[id].StartTime) \o "s"]
       /\ \A a \in DOMAIN procs \cap DOMAIN records :
             WaitStatus(a) =>
                 \E code \in ExitCodes :
                     records' = [records EXCEPT
                         ![a].Status = IF code = 0 THEN "success" ELSE "failed",
                         ![a].ExitCode = <<code>>,
                         ![a].ErrorMessage = "",
                         ![a].EndTime = <<now>>,
                         ![a].Duration = ToString(now - records[a].StartTime) \o "s"]]_vars

\* Complete(id, false, 137, "oom") one tick after Create, beside an attempt
\* whose sandbox exited with code 0 two ticks after it was created.
C19_Witness ==
    \E id \in DOMAIN records, a \in DOMAIN procs :
        /\ id \notin DOMAIN procs
        /\ records[id].Status = RemediationFailed
        /\ records[id].ExitCode = Some(137)
        /\ records[id].ErrorMessage = "oom"
        /\ records[id].Duration = "1s"
        /\ records[a].Status = RemediationSuccess
        /\ records[a].ExitCode = Some(0)
        /\ records[a].Duration = "2s"
        /\ procs[a].ret = "nil"

\* ------------------------------------------------------------ TriggerRemediation
TriggerAt(i, pc) == i \in DOMAIN triggers /\ triggers[i].pc = pc

\* if service.GitHubRepo == "" { return }: a read, without the store's lock, of
\* the stored record the handler passed on.
TriggerCheck(i) ==
    /\ TriggerAt(i, "check")
    /\ triggers' = [triggers EXCEPT
                       ![i].pc = IF services[triggers[i].service].GitHubRepo = ""
                                 THEN "done" ELSE "log"]
    /\ UNCHANGED <<now, regVars, ledVars, hubVars, replies, lockVars>>

\* AddRemediationLog(service.Name, now + " - Remediation triggered: " + errorLog).
TriggerLog(i) ==
    /\ TriggerAt(i, "log")
    /\ AddRemediationLog(triggers[i].service,
                         <<ToString(now), " - Remediation triggered: ",
                           triggers[i].errorLog>>)
    /\ triggers' = [triggers EXCEPT ![i].pc = "notify"]
    /\ UNCHANGED <<ledVars, hubVars, replies, lockVars>>

\* GetService and BroadcastServiceUpdate of the copy, before the attempt and
\* after it.
TriggerNotify(i) ==
    /\ TriggerAt(i, "notify") \/ TriggerAt(i, "notify_end")
    /\ IF triggers[i].service \in DOMAIN services
       THEN Broadcast("service_update", services[triggers[i].service])
       ELSE UNCHANGED hubVars
    /\ triggers' = [triggers EXCEPT
                       ![i].pc = IF triggers[i].pc = "notify" THEN "run" ELSE "done"]
    /\ UNCHANGED <<now, regVars, ledVars, replies, lockVars>>

\* app.remediation.RunOpenCode(service.GitHubRepo, errorLog, service.Name): the
\* repository is read again, and the call returns when the attempt is done.
TriggerRun(i) ==
    /\ TriggerAt(i, "run")
    /\ RunOpenCode(services[triggers[i].service].GitHubRepo, triggers[i].errorLog,
                   triggers[i].service)
    /\ triggers' = [triggers EXCEPT ![i].pc = "wait", ![i].id = Some(nextId)]
    /\ UNCHANGED <<hubVars, replies, lockVars>>

\* RunOpenCode has returned: AddRemediationLog of the outcome.
TriggerResult(i) ==
    /\ TriggerAt(i, "wait")
    /\ procs[triggers[i].id[1]].pc = "done"
    /\ AddRemediationLog(triggers[i].service,
                         IF procs[triggers[i].id[1]].ret = "error"
                         THEN <<ToString(now), " - Remediation failed: ", "error">>
                         ELSE <<ToString(now), " - Remediation completed successfully">>)
    /\ triggers' = [triggers EXCEPT ![i].pc = "notify_end"]
    /\ UNCHANGED <<ledVars, hubVars, replies, lockVars>>

\* ------------------------------------------------------------ heartbeats and remediation
\* The heartbeats of one service: healthy, failing with a repository and an
\* error log, and failing without a repository.
AppRequests == {req \in HeartbeatRequests : req.ServiceName = "svc-a"}

MaxRejected == 1   \* refused requests in one behaviour

\* Requests the handler refuses: a GET, a body that is not JSON, and an error
\* report, with a repository and an error log, that names no service.
RefusedRequests ==
    { HTTPRequest("GET", Some(HeartbeatRequest("svc-a", "https://example/x/y", "error", "boom", Nil))),
      HTTPRequest("POST", Nil),
      HTTPRequest("POST", Some(HeartbeatRequest("", "https://example/x/y", "error", "boom", Nil))) }

Refusals == Len(SelectSeq(replies, LAMBDA c : c # "StatusOK"))

NextApp ==
    \/ \E req \in AppRequests : HeartbeatHandler(Post(req))
    \/ Refusals < MaxRejected /\ \E r \in RefusedRequests : HeartbeatHandler(r)
    \/ \E i \in DOMAIN triggers : TriggerCheck(i)
    \/ \E i \in DOMAIN triggers : TriggerLog(i)
    \/ \E i \in DOMAIN triggers : TriggerNotify(i)
    \/ \E i \in DOMAIN triggers : TriggerRun(i)
    \/ \E i \in DOMAIN triggers : TriggerResult(i)
    \/ NextAttempt

SpecApp == InitLedger /\ [][NextApp]_vars

\* C20: a trigger that is past its RunOpenCode call, or has returned, created
\* one remediation record, with the service name, the repository and the error
\* text of the heartbeat that spawned it; and records are created by triggers
\* only, one each.
C20_OneAttemptPerErrorHeartbeat ==
    /\ Len(created) <= Len(triggers)
    /\ \A i \in DOMAIN triggers :
          triggers[i].pc \in {"wait", "notify_end", "done"} =>
              /\ triggers[i].id # Nil
              /\ triggers[i].id[1] \in DOMAIN records
              /\ records[triggers[i].id[1]].ServiceName = triggers[i].req.ServiceName
              /\ records[triggers[i].id[1]].GitHubRepo = triggers[i].req.GitHubRepo
              /\ records[triggers[i].id[1]].ErrorLog = triggers[i].req.ErrorLog

\* C21: a heartbeat request that is refused (not a POST, a body that does not
\* decode, or no service_name) changes nothing in the registry, broadcasts
\* nothing, and starts no remediation: the step leaves the registry, the
\* ledger, the hub and the triggers as they were.
C21_RefusedChangesNothing ==
    [][\A r \in RefusedRequests :
          HeartbeatHandler(r) =>
              UNCHANGED <<now, regVars, ledVars, hubVars, triggers>>]_vars

\* A refusal that follows an accepted heartbeat, with a trigger in flight.
C21_Witness ==
    /\ triggers # <<>>
    /\ \E i, j \in DOMAIN replies :
          i < j /\ replies[i] = "StatusOK" /\ replies[j] # "StatusOK"

\* C22: a service record handed to a caller is an independent snapshot: the
\* record a TriggerRemediation goroutine holds (the result of RecordHeartbeat)
\* reads, at any later time, as it did when it was handed over, whatever
\* heartbeats and remediation-log appends happened since.
C22_HeldRecordIsSnapshot ==
    \A i \in DOMAIN triggers : Held(i) = triggers[i].given

\* ------------------------------------------------------------ the store's mutex
\* The store's methods statement by statement, each between Lock and Unlock
\* (RLock and RUnlock for the getters) of ServiceStore.mu. The histories of the
\* whole-call actions above (appended, hist, ops) are not kept here; `serial`
\* is the registry those whole calls give, applied in the order the lock was
\* taken.
MaxThreads == 2      \* concurrent calls of store and hub methods

Writers == {"RecordHeartbeat", "CheckTimeouts", "AddRemediationLog"}
Getters == {"GetService", "GetAllServices"}

\* A call in progress: the method, its argument, where it is, the `now` a
\* sweep took, the names a sweep has still to visit and the one it is at, what
\* the call returns, and (history) what it would return from `serial`.
NewThread(op, arg) ==
    [op |-> op, arg |-> arg,
     pc |-> IF op \in Writers THEN "locking" ELSE "rlocking",
     at |-> 0, todo |-> {}, cur |-> "", ret |-> Nil, seen |-> Nil]

ThreadAt(t, pc) == t \in DOMAIN thr /\ thr[t].pc = pc

\* Mutant: Lock returns at once, whoever holds the mutex.
canLockUnguarded(l) == TRUE

\* sync.RWMutex: Lock waits until no writer and no reader holds the mutex;
\* RLock waits while a writer holds it or is waiting for it.
canLock(l) == l.w = 0 /\ l.r = {}
canRLock(l) == l.w = 0 /\ l.q = {}

\* Everything but the registry's records, the threads and the mutexes.
LockFrame ==
    UNCHANGED <<now, downServices, ops, appended, remAppended, hist, swept,
                ledVars, hubVars, triggers, replies>>

\* The registry after the whole call (op, arg) at time t.
wholeCall(reg, op, arg, t) ==
    CASE op = "RecordHeartbeat" ->
            Put(reg, arg.ServiceName,
                applyHeartbeat(IF arg.ServiceName \in DOMAIN reg
                               THEN reg[arg.ServiceName] ELSE NewService(arg),
                               arg, t))
      [] op = "CheckTimeouts" ->
            [n \in DOMAIN reg |->
                IF isStale(reg[n], t) THEN markDown(reg[n], t) ELSE reg[n]]
      [] op = "AddRemediationLog" ->
            IF arg.name \in DOMAIN reg
            THEN [reg EXCEPT ![arg.name] = appendRemediationLog(@, arg.log, t)]
            ELSE reg
      [] OTHER -> reg

\* A goroutine calls a store method: a writer queues for the mutex.
StoreCall(op, arg) ==
    /\ Len(thr) < MaxThreads
    /\ thr' = Append(thr, NewThread(op, arg))
    /\ mu' = IF op \in Writers
             THEN [mu EXCEPT !.store.q = @ \cup {Len(thr) + 1}]
             ELSE mu
    /\ UNCHANGED <<services, serial>>
    /\ LockFrame

\* s.mu.Lock() returns.
StoreLock(t) ==
    /\ ThreadAt(t, "locking")
    /\ thr[t].op \in Writers
    /\ canLock(mu.store)
    /\ mu' = [mu EXCEPT !.store.w = t, !.store.q = @ \ {t}]
    /\ thr' = [thr EXCEPT
                  ![t].pc = CASE thr[t].op = "RecordHeartbeat" -> "info"
                              [] thr[t].op = "CheckTimeouts" -> "sweep"
                              [] OTHER -> "append",
                  ![t].at = now,
                  ![t].todo = IF thr[t].op = "CheckTimeouts" THEN DOMAIN services ELSE {}]
    /\ serial' = wholeCall(serial, thr[t].op, thr[t].arg, now)
    /\ UNCHANGED services
    /\ LockFrame

\* RecordHeartbeat: the record is looked up or inserted, then GitHubRepo,
\* LastHeartbeat and TotalChecks are written.
HeartbeatInfo(t) ==
    /\ ThreadAt(t, "info")
    /\ LET req == thr[t].arg
           n == req.ServiceName
           old == IF n \in DOMAIN services THEN services[n] ELSE NewService(req)
       IN services' = Put(services, n,
                          [old EXCEPT !.GitHubRepo = req.GitHubRepo,
                                      !.LastHeartbeat = now,
                                      !.TotalChecks = @ + 1])
    /\ thr' = [thr EXCEPT ![t].pc = "status"]
    /\ UNCHANGED <<mu, serial>>
    /\ LockFrame

\* RecordHeartbeat: the healthy or the error branch, with its log entry.
HeartbeatStatus(t) ==
    /\ ThreadAt(t, "status")
    /\ LET req == thr[t].arg
           n == req.ServiceName
           s2 == IF req.Status = "healthy"
                 THEN [services[n] EXCEPT !.Status = StatusHealthy,
                                          !.SuccessChecks = @ + 1,
                                          !.LastError = ""]
                 ELSE [services[n] EXCEPT !.Status = StatusError,
                                          !.LastError = req.ErrorLog]
       IN services' = [services EXCEPT ![n] = addLog(s2, heartbeatEntry(req, now))]
    /\ thr' = [thr EXCEPT ![t].pc = "uptime"]
    /\ UNCHANGED <<mu, serial>>
    /\ LockFrame

\* RecordHeartbeat: the uptime percentage, and return service.
HeartbeatUptime(t) ==
    /\ ThreadAt(t, "uptime")
    /\ services' = [services EXCEPT ![thr[t].arg.ServiceName] = recalcUptime(@)]
    /\ thr' = [thr EXCEPT ![t].pc = "unlock"]
    /\ UNCHANGED <<mu, serial>>
    /\ LockFrame

\* CheckTimeouts: the loop takes the next record; a stale one gets its status,
\* its count and its uptime.
SweepMark(t) ==
    /\ ThreadAt(t, "sweep")
    /\ \E n \in thr[t].todo :
          IF isStale(services[n], thr[t].at)
          THEN /\ services' = [services EXCEPT
                                  ![n] = recalcUptime([@ EXCEPT !.Status = StatusDown,
                                                                !.TotalChecks = @ + 1])]
               /\ thr' = [thr EXCEPT ![t].pc = "sweeplog", ![t].cur = n]
          ELSE /\ thr' = [thr EXCEPT ![t].todo = @ \ {n}]
               /\ UNCHANGED services
    /\ UNCHANGED <<mu, serial>>
    /\ LockFrame

\* CheckTimeouts: the status entry, and the record joins downServices.
SweepLog(t) ==
    /\ ThreadAt(t, "sweeplog")
    /\ services' = [services EXCEPT
                       ![thr[t].cur] = addLog(@, statusEntry(thr[t].at))]
    /\ thr' = [thr EXCEPT ![t].pc = "sweep",
                          ![t].todo = @ \ {thr[t].cur},
                          ![t].ret = Append(@, thr[t].cur)]
    /\ UNCHANGED <<mu, serial>>
    /\ LockFrame

\* CheckTimeouts: the loop is over.
SweepEnd(t) ==
    /\ ThreadAt(t, "sweep")
    /\ thr[t].todo = {}
    /\ thr' = [thr EXCEPT ![t].pc = "unlock"]
    /\ UNCHANGED <<services, mu, serial>>
    /\ LockFrame

\* AddRemediationLog: the append to RemediationLog and its trim.
RemAppend(t) ==
    /\ ThreadAt(t, "append")
    /\ IF thr[t].arg.name \in DOMAIN services
       THEN /\ services' = [services EXCEPT
                               ![thr[t].arg.name].RemediationLog =
                                   LastN(Append(@, thr[t].arg.log), RemLogCap)]
            /\ thr' = [thr EXCEPT ![t].pc = "unified"]
       ELSE /\ thr' = [thr EXCEPT ![t].pc = "unlock"]
            /\ UNCHANGED services
    /\ UNCHANGED <<mu, serial>>
    /\ LockFrame

\* AddRemediationLog: the entry in the unified log.
RemUnified(t) ==
    /\ ThreadAt(t, "unified")
    /\ services' = [services EXCEPT
                       ![thr[t].arg.name] =
                           addLog(@, remediationEntry(now, thr[t].arg.log))]
    /\ thr' = [thr EXCEPT ![t].pc = "unlock"]
    /\ UNCHANGED <<mu, serial>>
    /\ LockFrame

\* defer s.mu.Unlock()
StoreUnlock(t) ==
    /\ ThreadAt(t, "unlock")
    /\ mu' = [mu EXCEPT !.store.w = 0]
    /\ thr' = [thr EXCEPT ![t].pc = "done"]
    /\ UNCHANGED <<services, serial>>
    /\ LockFrame

\* s.mu.RLock() returns.
StoreRLock(t) ==
    /\ ThreadAt(t, "rlocking")
    /\ thr[t].op \in Getters
    /\ canRLock(mu.store)
    /\ mu' = [mu EXCEPT !.store.r = @ \cup {t}]
    /\ thr' = [thr EXCEPT ![t].pc = "copy"]
    /\ UNCHANGED <<services, serial>>
    /\ LockFrame

\* What GetService(name) and GetAllServices copy out of the registry `reg`.
copyOut(reg, op, arg) ==
    IF op = "GetService"
    THEN IF arg \in DOMAIN reg THEN Some(reg[arg]) ELSE Nil
    ELSE reg

\* copy := *service, or the loop of GetAllServices.
StoreCopy(t) ==
    /\ ThreadAt(t, "copy")
    /\ thr' = [thr EXCEPT ![t].pc = "runlock",
                          ![t].ret = copyOut(services, thr[t].op, thr[t].arg),
                          ![t].seen = copyOut(serial, thr[t].op, thr[t].arg)]
    /\ UNCHANGED <<services, mu, serial>>
    /\ LockFrame

\* defer s.mu.RUnlock()
StoreRUnlock(t) ==
    /\ ThreadAt(t, "runlock")
    /\ mu' = [mu EXCEPT !.store.r = @ \ {t}]
    /\ thr' = [thr EXCEPT ![t].pc = "done"]
    /\ UNCHANGED <<services, serial>>
    /\ LockFrame

\* svc-a reported healthy at time 0 and has been silent for longer than the
\* timeout.
SilentService ==
    applyHeartbeat(NewService(HeartbeatRequest("svc-a", "https://example/x/y", "healthy", "", Nil)),
                   HeartbeatRequest("svc-a", "https://example/x/y", "healthy", "", Nil), 0)

InitLock ==
    /\ IdleLedger
    /\ now = Timeout + 1
    /\ services = [n \in {"svc-a"} |-> SilentService]
    /\ serial = services
    /\ downServices = {}
    /\ ops = 0
    /\ appended = [n \in {"svc-a"} |-> SilentService.Logs]
    /\ remAppended = [n \in {"svc-a"} |-> <<>>]
    /\ hist = [n \in {"svc-a"} |-> [hb |-> 1, healthy |-> 1, downs |-> 0]]
    /\ swept = Nil
    /\ clients = {}
    /\ conns = <<>>
    /\ wire = {}
    /\ sent = 0
    /\ triggers = <<>>
    /\ replies = <<>>
    /\ thr = <<>>
    /\ mu = FreeLocks

\* The calls made: a heartbeat of the silent service, one of a new service, the
\* sweep, a remediation entry, and the two getters.
StoreCalls ==
    { <<"RecordHeartbeat", HeartbeatRequest("svc-a", "", "error", "boom", Nil)>>,
      <<"RecordHeartbeat", HeartbeatRequest("svc-b", "https://example/x/y", "healthy", "", DataOf("text_message"))>>,
      <<"CheckTimeouts", Nil>>,
      <<"AddRemediationLog", [name |-> "svc-a", log |-> <<"2", " - Remediation triggered: ", "boom">>]>>,
      <<"GetService", "svc-a">>,
      <<"GetAllServices", Nil>> }

NextLock ==
    \/ \E c \in StoreCalls : StoreCall(c[1], c[2])
    \/ \E t \in DOMAIN thr : StoreLock(t)
    \/ \E t \in DOMAIN thr : HeartbeatInfo(t)
    \/ \E t \in DOMAIN thr : HeartbeatStatus(t)
    \/ \E t \in DOMAIN thr : HeartbeatUptime(t)
    \/ \E t \in DOMAIN thr : SweepMark(t)
    \/ \E t \in DOMAIN thr : SweepLog(t)
    \/ \E t \in DOMAIN thr : SweepEnd(t)
    \/ \E t \in DOMAIN thr : RemAppend(t)
    \/ \E t \in DOMAIN thr : RemUnified(t)
    \/ \E t \in DOMAIN thr : StoreUnlock(t)
    \/ \E t \in DOMAIN thr : StoreRLock(t)
    \/ \E t \in DOMAIN thr : StoreCopy(t)
    \/ \E t \in DOMAIN thr : StoreRUnlock(t)

SpecLock == InitLock /\ [][NextLock]_vars

\* C23: the store's mutex serialises its calls. Whenever no writer is inside
\* the mutex the registry is the one the whole calls give in the order they
\* took the lock, so no heartbeat interleaves with a sweep's change of the same
\* record; and what a getter copies is what it would copy from that registry,
\* never a record with part of a call applied.
C23_Serializable ==
    /\ mu.store.w = 0 => services = serial
    /\ \A t \in DOMAIN thr : thr[t].ret # Nil /\ thr[t].op \in Getters
                                => thr[t].ret = thr[t].seen

\* A heartbeat of svc-a is half applied while a sweep waits for the lock.
C23_Witness ==
    \E t, u \in DOMAIN thr :
       /\ thr[t].op = "RecordHeartbeat" /\ thr[t].arg.ServiceName = "svc-a"
       /\ thr[t].pc = "status"
       /\ thr[u].op = "CheckTimeouts" /\ thr[u].pc = "locking"

\* ------------------------------------------------------------ runTimeoutChecker
\* CheckTimeoutsAndUpdateUptime is called by runTimeoutChecker and defined
\* nowhere in the sources at hand. It is taken to be what the specification
\* says of the sweep: the effect of CheckTimeouts on the registry, the
\* newly-down records as its first result and, as its second, the records
\* whose fields the sweep changed, which are the same ones.
CheckTimeoutsAndUpdateUptime == CheckTimeouts

TimeoutText == "Service heartbeat timeout - no response received"

\* go app.TriggerRemediation(service, "Service heartbeat timeout - ..."): the
\* goroutine holds the stored record; no request spawned it.
NewSweepTrigger(n, given) ==
    [pc |-> "check", service |-> n, errorLog |-> TimeoutText,
     id |-> Nil, req |-> Nil, given |-> given]

\* The orders in which a range over a map may yield the members of S.
Orders(S) ==
    {s \in [1..Cardinality(S) -> S] : \A i, j \in DOMAIN s : s[i] = s[j] => i = j}

\* Broadcast called once for each element of datas, in order.
BroadcastEach(msgType, datas) ==
    /\ wire' = wire \cup
                  {[to |-> c, n |-> sent + k, msg |-> WSMessage(msgType, datas[k])] :
                       c \in clients, k \in DOMAIN datas}
    /\ sent' = sent + Len(datas)
    /\ UNCHANGED <<clients, conns>>

\* One tick of runTimeoutChecker: the sweep, a TriggerRemediation goroutine for
\* each newly-down service, and a broadcast of each updated service.
SweepTick ==
    /\ CheckTimeoutsAndUpdateUptime
    /\ \E down \in Orders(downServices') :
          /\ triggers' = triggers \o
                            [k \in DOMAIN down |-> NewSweepTrigger(down[k], services'[down[k]])]
          /\ BroadcastEach("service_update", [k \in DOMAIN down |-> services'[down[k]]])
    /\ UNCHANGED <<ledVars, replies, lockVars>>

\* ------------------------------------------------------------ two triggers at once
\* Two error heartbeats have just been handled at time 0, both of svc-a or one
\* each of svc-a and svc-b, and their TriggerRemediation goroutines have been
\* spawned and not yet scheduled. `ops` counts the store calls from here on.
FailingRequest(n) == HeartbeatRequest(n, "https://example/x/y", "error", "boom", Nil)

InitRetrigger ==
    \E second \in Names :
        LET r1 == FailingRequest("svc-a")
            r2 == FailingRequest(second)
            reg1 == wholeCall(<<>>, "RecordHeartbeat", r1, 0)
            reg2 == wholeCall(reg1, "RecordHeartbeat", r2, 0)
        IN /\ now = 0
           /\ services = reg2
           /\ downServices = {}
           /\ ops = 0
           /\ appended = [n \in DOMAIN reg2 |-> reg2[n].Logs]
           /\ remAppended = [n \in DOMAIN reg2 |-> <<>>]
           /\ hist = [n \in DOMAIN reg2 |->
                         [hb |-> reg2[n].TotalChecks, healthy |-> 0, downs |-> 0]]
           /\ swept = Nil
           /\ config \in Configs
           /\ records = <<>>
           /\ order = <<>>
           /\ procs = <<>>
           /\ nextId = 1
           /\ reports = 0
           /\ created = <<>>
           /\ clients = {}
           /\ conns = <<>>
           /\ wire = {}
           /\ sent = 2
           /\ triggers = <<NewTrigger(r1, reg1["svc-a"]), NewTrigger(r2, reg2[second])>>
           /\ replies = <<"StatusOK", "StatusOK">>
           /\ thr = <<>>
           /\ mu = FreeLocks
           /\ serial = <<>>

NextRetrigger ==
    \/ \E req \in QuietRequests : HeartbeatHandler(Post(req))
    \/ \E i \in DOMAIN triggers : TriggerCheck(i)
    \/ \E i \in DOMAIN triggers : TriggerLog(i)
    \/ \E i \in DOMAIN triggers : TriggerNotify(i)
    \/ \E i \in DOMAIN triggers : TriggerRun(i)
    \/ \E i \in DOMAIN triggers : TriggerResult(i)
    \/ NextAttempt

SpecRetrigger == InitRetrigger /\ [][NextRetrigger]_vars

Started(i) == i \in DOMAIN triggers /\ triggers[i].id # Nil

\* C24: triggers are neither deduplicated nor mutually exclusive. A trigger
\* that has come to its RunOpenCode call can make it whatever attempts are in
\* progress (up to the MaxAttempts this model follows); the triggers that made
\* the call have a ledger record each, with distinct ids, for their service;
\* and an attempt that has not returned always has a step it can take, whatever
\* the other attempts are doing.
C24_NoDedupNoExclusion ==
    /\ \A i \in DOMAIN triggers :
          TriggerAt(i, "run") /\ Cardinality(DOMAIN procs) < MaxAttempts
              => ENABLED TriggerRun(i)
    /\ \A i, j \in DOMAIN triggers :
          Started(i) /\ Started(j) /\ i # j
              => /\ triggers[i].id # triggers[j].id
                 /\ triggers[i].id[1] \in DOMAIN records
                 /\ records[triggers[i].id[1]].ServiceName = triggers[i].service
    /\ \A a \in DOMAIN procs : procs[a].pc # "done" => ENABLED AttemptStep(a)

\* Two triggers for svc-a have each created a record while the attempt of the
\* other was still in progress.
C24_Witness ==
    /\ Started(1) /\ Started(2)
    /\ triggers[1].service = triggers[2].service
    /\ \A a \in DOMAIN procs : procs[a].pc # "done"
    /\ Cardinality(DOMAIN records) = 2

\* ------------------------------------------------------------ heartbeats fanned out
\* The subscribers: both connected before the first heartbeat, each with the
\* init snapshot of the empty registry.
Watchers == {1, 2}

InitFanout ==
    /\ IdleLedger
    /\ now = 0
    /\ services = <<>>
    /\ downServices = {}
    /\ ops = 0
    /\ appended = <<>>
    /\ remAppended = <<>>
    /\ hist = <<>>
    /\ swept = Nil
    /\ clients = Watchers
    /\ conns = [ws \in Watchers |->
                   [NewConn EXCEPT !.pc = "read", !.got = <<WSMessage("init", <<>>)>>]]
    /\ wire = {}
    /\ sent = 0
    /\ triggers = <<>>
    /\ replies = <<>>
    /\ thr = <<>>
    /\ mu = FreeLocks
    /\ serial = <<>>

NextFanout ==
    \/ sent < MaxBroadcasts /\ \E req \in QuietRequests : HeartbeatHandler(Post(req))
    \/ (\E ws \in DOMAIN conns : ReadError(ws))
           /\ UNCHANGED <<now, regVars, ledVars, triggers, replies, lockVars>>
    \/ (\E w \in wire : Deliver(w))
           /\ UNCHANGED <<now, regVars, ledVars, triggers, replies, lockVars>>
    \/ (\E w \in wire : DeliverFail(w))
           /\ UNCHANGED <<now, regVars, ledVars, triggers, replies, lockVars>>

SpecFanout == InitFanout /\ [][NextFanout]_vars

\* C25: the service_update of an accepted heartbeat is made after the
\* heartbeat is in the registry: every envelope the handler puts on the wire
\* carries the record as committed, which counts this heartbeat, has its time
\* and ends with its log entry. A delivery, whether it succeeds or fails,
\* leaves the registry as it is.
C25_BroadcastAfterCommit ==
    [][/\ \A req \in QuietRequests :
             HeartbeatHandler(Post(req)) =>
                 /\ sent' = sent + 1
                 /\ \A w \in wire' \ wire :
                       /\ w.msg.Type = "service_update"
                       /\ w.msg.Data = services'[req.ServiceName]
                       /\ w.msg.Data.TotalChecks =
                              1 + (IF req.ServiceName \in DOMAIN services
                                   THEN services[req.ServiceName].TotalChecks ELSE 0)
                       /\ w.msg.Data.LastHeartbeat = now
                       /\ w.msg.Data.Logs[Len(w.msg.Data.Logs)] = heartbeatEntry(req, now)
       /\ (\E w \in wire : Deliver(w) \/ DeliverFail(w)) => UNCHANGED regVars]_vars

\* One subscriber has received the update of a heartbeat, the delivery to the
\* other has failed, and the heartbeat is in the registry.
C25_Witness ==
    /\ wire = {}
    /\ services # <<>>
    /\ \E ws \in DOMAIN conns : conns[ws].failed
    /\ \E ws \in DOMAIN conns :
          /\ ~conns[ws].failed
          /\ Len(conns[ws].got) > 1
          /\ conns[ws].got[2].Type = "service_update"
          /\ conns[ws].got[2].Data.Name \in DOMAIN services

\* The ContainerCreate or ContainerStart call of attempt a has just failed.
CreateFailed(a) == ContainerCreate(a) /\ procs'[a].sandbox = "none"
StartFailed(a) == ContainerStart(a) /\ procs'[a].sandbox = "created"

\* C26: when the creation of the sandbox fails, or its start, the attempt
\* ends in that step: the record is failed with exit code -1 and a message
\* that says which call failed, RunOpenCode returns an error, nothing is
\* streamed or waited for. Nothing else changes: the other records, the
\* registry, the hub and the triggers are as before; and heartbeats are still
\* handled and broadcast, and the sweep still runs, while attempts fail.
C26_SandboxFailureIsLocal ==
    /\ [][\A a \in DOMAIN procs :
             CreateFailed(a) \/ StartFailed(a) =>
                 /\ records'[a].Status = RemediationFailed
                 /\ records'[a].ExitCode = Some(-1)
                 /\ records'[a].ErrorMessage =
                        (IF procs[a].pc = "create" THEN "Failed to create container"
                         ELSE "Failed to start container")
                 /\ records'[a].EndTime = Some(now)
                 /\ procs'[a].pc = "done"
                 /\ procs'[a].ret = "error"
                 /\ ~procs'[a].streaming
                 /\ \A b \in DOMAIN records : b # a => records'[b] = records[b]
                 /\ \A b \in DOMAIN procs : b # a => procs'[b] = procs[b]
                 /\ UNCHANGED <<regVars, hubVars, triggers>>]_vars
    /\ [](ops < MaxOps =>
             /\ \A req \in QuietRequests : ENABLED HeartbeatHandler(Post(req))
             /\ ENABLED SweepTick)

\* The start of one attempt's sandbox failed while the other attempt was in
\* progress, and a heartbeat was handled after that.
C26_Witness ==
    /\ \E a, b \in DOMAIN procs :
          /\ a # b
          /\ procs[a].pc = "done" /\ procs[a].sandbox = "created"
          /\ records[a].ErrorMessage = "Failed to start container"
          /\ procs[b].pc = "wait"
          /\ records[b].Status = RemediationRunning
    /\ Len(replies) > 2

\* ------------------------------------------------------------ a subscriber watching remediation
\* One subscriber connected at start-up: it has the init snapshot of the empty
\* registry and stays connected, and every write to it succeeds.
InitWatch ==
    /\ now = 0
    /\ services = <<>>
    /\ downServices = {}
    /\ ops = 0
    /\ appended = <<>>
    /\ remAppended = <<>>
    /\ hist = <<>>
    /\ swept = Nil
    /\ config \in Configs
    /\ records = <<>>
    /\ order = <<>>
    /\ procs = <<>>
    /\ nextId = 1
    /\ reports = 0
    /\ created = <<>>
    /\ clients = {1}
    /\ conns = [ws \in {1} |->
                   [NewConn EXCEPT !.pc = "read", !.got = <<WSMessage("init", <<>>)>>]]
    /\ wire = {}
    /\ sent = 0
    /\ triggers = <<>>
    /\ replies = <<>>
    /\ thr = <<>>
    /\ mu = FreeLocks
    /\ serial = <<>>

NextWatch ==
    \/ \E req \in AppRequests : HeartbeatHandler(Post(req))
    \/ \E i \in DOMAIN triggers : TriggerCheck(i)
    \/ \E i \in DOMAIN triggers : TriggerLog(i)
    \/ \E i \in DOMAIN triggers : TriggerNotify(i)
    \/ \E i \in DOMAIN triggers : TriggerRun(i)
    \/ \E i \in DOMAIN triggers : TriggerResult(i)
    \/ NextAttempt
    \/ \E id \in ReportIds, success \in BOOLEAN : RemediationReportHandler(id, success)
    \/ (\E w \in wire : Deliver(w))
           /\ UNCHANGED <<now, regVars, ledVars, triggers, replies, lockVars>>

SpecWatch == InitWatch /\ [][NextWatch]_vars

\* The envelopes a subscriber has received or is about to.
Envelopes(ws) ==
    {conns[ws].got[k] : k \in DOMAIN conns[ws].got} \cup {w.msg : w \in {x \in wire : x.to = ws}}

\* C27: the status changes of an attempt are broadcast: once TriggerRemediation
\* has returned from an attempt whose record is terminal, the connected
\* subscriber has received, or is being sent, a remediation_update that carries
\* the record with that status.
C27_StatusChangesAreBroadcast ==
    \A i \in DOMAIN triggers :
        /\ triggers[i].pc = "done"
        /\ Started(i)
        /\ Terminal(records[triggers[i].id[1]].Status)
        => \A ws \in clients :
              \E e \in Envelopes(ws) :
                  /\ e.Type = "remediation_update"
                  /\ e.Data.ID = triggers[i].id[1]
                  /\ e.Data.Status = records[triggers[i].id[1]].Status

\* ------------------------------------------------------------ heartbeats, sweeps and remediation
NextSweep ==
    \/ \E req \in AppRequests : HeartbeatHandler(Post(req))
    \/ Tick
    \/ SweepTick
    \/ \E i \in DOMAIN triggers : TriggerCheck(i)
    \/ \E i \in DOMAIN triggers : TriggerLog(i)
    \/ \E i \in DOMAIN triggers : TriggerNotify(i)
    \/ \E i \in DOMAIN triggers : TriggerRun(i)
    \/ \E i \in DOMAIN triggers : TriggerResult(i)
    \/ NextAttempt

SpecSweep == InitLedger /\ [][NextSweep]_vars

\* The triggers runTimeoutChecker spawned.
FromSweep(i) == i \in DOMAIN triggers /\ triggers[i].req = Nil

\* C28: a service a sweep newly marks down gets one remediation attempt from
\* that sweep: when the TriggerRemediation goroutine the sweep spawned for it
\* has returned, it has created a ledger record for that service with the
\* heartbeat-timeout text as its error.
C28_NewlyDownIsRemediated ==
    \A i \in DOMAIN triggers :
        FromSweep(i) /\ triggers[i].pc = "done" =>
            /\ Started(i)
            /\ triggers[i].id[1] \in DOMAIN records
            /\ records[triggers[i].id[1]].ServiceName = triggers[i].service
            /\ records[triggers[i].id[1]].ErrorLog = TimeoutText

\* ------------------------------------------------------------ attempts that keep running
\* The orchestrator with its goroutines scheduled: a RunOpenCode invocation that
\* can take a step eventually takes one (every backend call returns, and the
\* deadline of a waiting attempt fires unless another case of the select is
\* taken first). Nothing requires new attempts or agent reports to arrive.
SpecLedgerFair == InitLedger /\ [][NextLedger]_vars /\ WF_vars(NextAttempt)

\* C29: every attempt ends: some time after RunOpenCode was called, it has
\* returned and the record of the attempt has a terminal status.
C29_EveryAttemptEnds ==
    \A a \in 1..MaxAttempts :
        [](a \in DOMAIN procs =>
              <>(/\ a \in DOMAIN procs /\ procs[a].pc = "done"
                 /\ a \in DOMAIN records /\ Terminal(records[a].Status)))

\* ------------------------------------------------------------ the three mutexes together
\* The handlers as sequences of lock operations and locked sections: what each
\* locks, in which order, and what it does under the lock. A write goroutine of
\* Broadcast is an envelope on the wire, which the subscriber may never accept;
\* all it can do is end, by Deliver.
Program(op) ==
    CASE op = "HeartbeatHandler" ->
            << <<"Lock", "store">>, <<"do", "RecordHeartbeat">>, <<"Unlock", "store">>,
               <<"RLock", "hub">>, <<"do", "Write">>, <<"RUnlock", "hub">> >>
      [] op = "runTimeoutChecker" ->
            << <<"Lock", "store">>, <<"do", "CheckTimeouts">>, <<"Unlock", "store">>,
               <<"RLock", "hub">>, <<"do", "Write">>, <<"RUnlock", "hub">> >>
      [] op = "RemediationReportHandler" ->
            << <<"Lock", "ledger">>, <<"do", "AddAgentReport">>, <<"Unlock", "ledger">>,
               <<"RLock", "ledger">>, <<"do", "Get">>, <<"RUnlock", "ledger">>,
               <<"RLock", "hub">>, <<"do", "Write">>, <<"RUnlock", "hub">> >>
      [] op = "WSHandler" ->
            << <<"Lock", "hub">>, <<"do", "AddClient">>, <<"Unlock", "hub">>,
               <<"RLock", "store">>, <<"do", "GetAllServices">>, <<"RUnlock", "store">>,
               <<"wait", "WriteInit">>, <<"wait", "Read">>,
               <<"Lock", "hub">>, <<"do", "RemoveClient">>, <<"Unlock", "hub">> >>
      [] op = "RunOpenCode" ->
            << <<"Lock", "ledger">>, <<"led", "Create">>, <<"Unlock", "ledger">>,
               <<"Lock", "ledger">>, <<"led", "MarkRunning">>, <<"Unlock", "ledger">>,
               <<"Lock", "ledger">>, <<"led", "MarkCreated">>, <<"Unlock", "ledger">>,
               <<"write", "ContainerID">>,
               <<"Lock", "ledger">>, <<"led", "Complete">>, <<"Unlock", "ledger">> >>
      [] op = "Get" ->
            << <<"RLock", "ledger">>, <<"led", "Get">>, <<"RUnlock", "ledger">> >>

\* A handler in progress: its argument, the index of its next operation, what
\* it has to broadcast (the services a sweep marked down, the record it
\* fetched), and the number of the broadcast it is writing (0 for none).
NewFlow(op, arg) ==
    [op |-> op, arg |-> arg, pc |-> 1, todo |-> {}, data |-> Nil, n |-> 0]

Finished(t) == thr[t].pc > Len(Program(thr[t].op))
Cur(t) == Program(thr[t].op)[thr[t].pc]
FlowAt(t, step) == t \in DOMAIN thr /\ ~Finished(t) /\ Cur(t) = step

\* The handler has nothing to broadcast: the sweep marked nothing down, or the
\* lookup found nothing.
NothingToSend(t, todo, data) ==
    CASE thr[t].op = "runTimeoutChecker" -> todo = {}
      [] thr[t].op = "RemediationReportHandler" -> data = Nil
      [] OTHER -> FALSE

\* The index of the operation after the current one: the broadcast is left out
\* when there is nothing to send, and repeated while a sweep has more to send.
NextPc(t, todo, data) ==
    LET prog == Program(thr[t].op)
        p == thr[t].pc + 1
    IN IF p <= Len(prog) /\ prog[p] = <<"RLock", "hub">> /\ NothingToSend(t, todo, data)
       THEN Len(prog) + 1
       ELSE IF Cur(t) = <<"RUnlock", "hub">> /\ todo # {}
       THEN thr[t].pc - 2
       ELSE p

Advance(t) == [thr EXCEPT ![t].pc = NextPc(t, thr[t].todo, thr[t].data)]

\* A handler starts.
FlowCall(op, arg) ==
    /\ Len(thr) < MaxThreads
    /\ op = "RemediationReportHandler" =>
          Cardinality({t \in DOMAIN thr : thr[t].op = op}) + reports < MaxReports
    /\ thr' = Append(thr, NewFlow(op, arg))
    /\ UNCHANGED <<now, regVars, ledVars, hubVars, triggers, replies, mu, serial>>

\* mu.Lock() is called: the caller waits for the mutex.
FlowRequest(t) ==
    /\ t \in DOMAIN thr /\ ~Finished(t)
    /\ Cur(t)[1] = "Lock"
    /\ t \notin mu[Cur(t)[2]].q
    /\ mu' = [mu EXCEPT ![Cur(t)[2]].q = @ \cup {t}]
    /\ UNCHANGED <<now, regVars, ledVars, hubVars, triggers, replies, thr, serial>>

\* mu.Lock() returns.
FlowLock(t) ==
    /\ t \in DOMAIN thr /\ ~Finished(t)
    /\ Cur(t)[1] = "Lock"
    /\ t \in mu[Cur(t)[2]].q
    /\ canLock(mu[Cur(t)[2]])
    /\ mu' = [mu EXCEPT ![Cur(t)[2]].w = t, ![Cur(t)[2]].q = @ \ {t}]
    /\ thr' = Advance(t)
    /\ UNCHANGED <<now, regVars, ledVars, hubVars, triggers, replies, serial>>

\* mu.RLock() returns.
FlowRLock(t) ==
    /\ t \in DOMAIN thr /\ ~Finished(t)
    /\ Cur(t)[1] = "RLock"
    /\ canRLock(mu[Cur(t)[2]])
    /\ mu' = [mu EXCEPT ![Cur(t)[2]].r = @ \cup {t}]
    /\ thr' = Advance(t)
    /\ UNCHANGED <<now, regVars, ledVars, hubVars, triggers, replies, serial>>

\* mu.Unlock(), deferred or not.
FlowUnlock(t) ==
    /\ t \in DOMAIN thr /\ ~Finished(t)
    /\ Cur(t)[1] = "Unlock"
    /\ mu' = [mu EXCEPT ![Cur(t)[2]].w = 0]
    /\ thr' = Advance(t)
    /\ UNCHANGED <<now, regVars, ledVars, hubVars, triggers, replies, serial>>

\* mu.RUnlock(), deferred or not.
FlowRUnlock(t) ==
    /\ t \in DOMAIN thr /\ ~Finished(t)
    /\ Cur(t)[1] = "RUnlock"
    /\ mu' = [mu EXCEPT ![Cur(t)[2]].r = @ \ {t}]
    /\ thr' = Advance(t)
    /\ UNCHANGED <<now, regVars, ledVars, hubVars, triggers, replies, serial>>

\* The section of a store, ledger or hub method between its lock and unlock.
FlowBody(t) ==
    /\ t \in DOMAIN thr /\ ~Finished(t)
    /\ Cur(t)[1] = "do"
    /\ CASE Cur(t)[2] = "RecordHeartbeat" ->
               /\ RecordHeartbeat(thr[t].arg)
               /\ thr' = Advance(t)
               /\ UNCHANGED <<ledVars, hubVars>>
         [] Cur(t)[2] = "CheckTimeouts" ->
               /\ CheckTimeoutsAndUpdateUptime
               /\ thr' = [thr EXCEPT ![t].pc = @ + 1, ![t].todo = downServices']
               /\ UNCHANGED <<ledVars, hubVars>>
         [] Cur(t)[2] = "AddAgentReport" ->
               /\ SetLedger(AddAgentReport(Ledger, thr[t].arg.id,
                                           AgentReport(thr[t].arg.id, thr[t].arg.success, now)))
               /\ reports' = reports + 1
               /\ thr' = Advance(t)
               /\ UNCHANGED <<config, procs, nextId, created, now, regVars, hubVars>>
         [] Cur(t)[2] = "Get" ->
               /\ thr' = [thr EXCEPT ![t].pc = @ + 1, ![t].data = Get(Ledger, thr[t].arg.id)]
               /\ UNCHANGED <<now, regVars, ledVars, hubVars>>
         [] Cur(t)[2] = "AddClient" ->
               /\ \E ws \in 1..MaxConns :
                     /\ AddClient(ws)
                     /\ thr' = [thr EXCEPT ![t].pc = @ + 1, ![t].arg = ws]
               /\ UNCHANGED <<now, regVars, ledVars>>
         [] Cur(t)[2] = "GetAllServices" ->
               /\ Snapshot(thr[t].arg)
               /\ thr' = Advance(t)
               /\ UNCHANGED <<now, regVars, ledVars>>
         [] Cur(t)[2] = "RemoveClient" ->
               /\ ReadError(thr[t].arg)
               /\ thr' = Advance(t)
               /\ UNCHANGED <<now, regVars, ledVars>>
         [] OTHER -> FALSE
    /\ UNCHANGED <<triggers, replies, mu, serial>>

\* What the handler broadcasts: the stored record of the heartbeat's service or
\* of a service the sweep marked down, or the record Get gave.
Payload(t, n) ==
    CASE thr[t].op = "HeartbeatHandler" -> services[thr[t].arg.ServiceName]
      [] thr[t].op = "runTimeoutChecker" -> services[n]
      [] OTHER -> thr[t].data[1]

\* Mutant: Broadcast writes to each client itself, inside the loop, and goes
\* on when the writes have returned.
FlowWriteInline(t) ==
    /\ FlowAt(t, <<"do", "Write">>)
    /\ IF thr[t].n = 0
       THEN \E n \in (IF thr[t].op = "runTimeoutChecker" THEN thr[t].todo ELSE {""}) :
               /\ Broadcast(IF thr[t].op = "RemediationReportHandler"
                            THEN "remediation_update" ELSE "service_update",
                            Payload(t, n))
               /\ thr' = [thr EXCEPT ![t].n = sent + 1, ![t].todo = @ \ {n}]
       ELSE /\ \A w \in wire : w.n # thr[t].n
            /\ thr' = [thr EXCEPT ![t].pc = @ + 1, ![t].n = 0]
            /\ UNCHANGED hubVars
    /\ UNCHANGED <<now, regVars, ledVars, triggers, replies, mu, serial>>

\* Broadcast between RLock and RUnlock: the envelope is marshalled and one
\* goroutine per client is started to write it.
FlowWrite(t) ==
    /\ FlowAt(t, <<"do", "Write">>)
    /\ \E n \in (IF thr[t].op = "runTimeoutChecker" THEN thr[t].todo ELSE {""}) :
          /\ Broadcast(IF thr[t].op = "RemediationReportHandler"
                       THEN "remediation_update" ELSE "service_update",
                       Payload(t, n))
          /\ thr' = [thr EXCEPT ![t].pc = @ + 1, ![t].n = sent + 1, ![t].todo = @ \ {n}]
    /\ UNCHANGED <<now, regVars, ledVars, triggers, replies, mu, serial>>

\* What the subscriber's side decides: the init envelope is taken or refused,
\* or the connection is closed so that the handler's read fails.
SocketEvent(t) ==
    /\ t \in DOMAIN thr /\ ~Finished(t)
    /\ Cur(t)[1] = "wait"
    /\ IF Cur(t)[2] = "WriteInit"
       THEN WriteInit(thr[t].arg)
       ELSE UNCHANGED hubVars
    /\ thr' = Advance(t)
    /\ UNCHANGED <<now, regVars, ledVars, triggers, replies, mu, serial>>

\* A step of handler t that waits for no subscriber.
FlowStep(t) ==
    \/ FlowRequest(t) \/ FlowLock(t) \/ FlowRLock(t) \/ FlowUnlock(t)
    \/ FlowRUnlock(t) \/ FlowBody(t) \/ FlowWrite(t)

\* The registry holds the silent svc-a; the ledger holds the record of one
\* attempt for it, which failed at once for want of every prerequisite.
InitHubLock ==
    LET L == Complete(Create([records |-> <<>>, order |-> <<>>], 1, "svc-a",
                             "https://example/x/y", "boom", 0),
                      1, FALSE, -1, missingPrerequisite(Config(FALSE, "", "")), 0)
    IN /\ now = Timeout + 1
       /\ services = [n \in {"svc-a"} |-> SilentService]
       /\ serial = <<>>
       /\ downServices = {}
       /\ ops = 0
       /\ appended = [n \in {"svc-a"} |-> SilentService.Logs]
       /\ remAppended = [n \in {"svc-a"} |-> <<>>]
       /\ hist = [n \in {"svc-a"} |-> [hb |-> 1, healthy |-> 1, downs |-> 0]]
       /\ swept = Nil
       /\ config = Config(FALSE, "", "")
       /\ records = L.records
       /\ order = L.order
       /\ procs = [a \in {1} |->
                      [NewProc("https://example/x/y", "boom", "svc-a")
                          EXCEPT !.pc = "done", !.ctx = "cancelled", !.ret = "error",
                                 !.terminals = 1]]
       /\ nextId = 2
       /\ reports = 0
       /\ created = <<1>>
       /\ clients = {}
       /\ conns = <<>>
       /\ wire = {}
       /\ sent = 0
       /\ triggers = <<>>
       /\ replies = <<>>
       /\ thr = <<>>
       /\ mu = FreeLocks

FlowCalls ==
    { <<"HeartbeatHandler", HeartbeatRequest("svc-a", "https://example/x/y", "healthy", "", Nil)>>,
      <<"runTimeoutChecker", Nil>>,
      <<"RemediationReportHandler", [id |-> 1, success |-> TRUE]>>,
      <<"WSHandler", 0>> }

NextHubLock ==
    \/ \E c \in FlowCalls : FlowCall(c[1], c[2])
    \/ \E t \in DOMAIN thr : FlowRequest(t)
    \/ \E t \in DOMAIN thr : FlowLock(t)
    \/ \E t \in DOMAIN thr : FlowRLock(t)
    \/ \E t \in DOMAIN thr : FlowUnlock(t)
    \/ \E t \in DOMAIN thr : FlowRUnlock(t)
    \/ \E t \in DOMAIN thr : FlowBody(t)
    \/ \E t \in DOMAIN thr : FlowWrite(t)
    \/ \E t \in DOMAIN thr : SocketEvent(t)
    \/ (\E w \in wire : Deliver(w))
           /\ UNCHANGED <<now, regVars, ledVars, triggers, replies, lockVars>>

SpecHubLock == InitHubLock /\ [][NextHubLock]_vars

Holds(t, l) == mu[l].w = t \/ t \in mu[l].r

AtHub(t) ==
    \/ Holds(t, "hub")
    \/ t \in mu.hub.q
    \/ ~Finished(t) /\ Cur(t) \in {<<"Lock", "hub">>, <<"RLock", "hub">>}

\* C30: the hub's lock is independent of the registry's and the ledger's. A
\* handler that asks for the hub's lock, or holds it, holds neither of the
\* other two; as long as a handler has not returned, and is not waiting for
\* its own subscriber, some handler can take a step, whether or not any
\* subscriber accepts anything; and a handler inside Broadcast can always take
\* its next step, so Broadcast returns whatever the subscribers do.
C30_HubLockIndependent ==
    /\ \A t \in DOMAIN thr :
          AtHub(t) => ~Holds(t, "store") /\ ~Holds(t, "ledger")
    /\ (\E t \in DOMAIN thr : ~Finished(t) /\ Cur(t)[1] # "wait")
          => \E t \in DOMAIN thr : ENABLED FlowStep(t)
    /\ \A t \in DOMAIN thr : t \in mu.hub.r => ENABLED FlowStep(t)

\* A heartbeat's Broadcast has returned, and the handler with it, while the
\* envelope it started to write has not been accepted by the subscriber.
C30_Witness ==
    \E t \in DOMAIN thr :
        /\ thr[t].op = "HeartbeatHandler"
        /\ Finished(t)
        /\ \E w \in wire : w.n = thr[t].n

\* ------------------------------------------------------------ UpdateStatus with every kind of argument
\* Direct Create, UpdateStatus and Complete calls from an empty ledger; the
\* container id and name passed to UpdateStatus are empty or not, equal to the
\* stored ones or not.
StatusArgs == {RemediationRunning, RemediationFailed}
ContainerIDArgs == {"", "ctr-1", "ctr-9"}
ContainerNameArgs == {"", "highline-fix-1", "highline-fix-9"}

StoreUpdateStatusWith(id, status, containerID, containerName) ==
    /\ ops < MaxOps
    /\ SetLedger(UpdateStatus(Ledger, id, status, containerID, containerName))
    /\ ops' = ops + 1
    /\ UNCHANGED <<config, procs, nextId, reports, created>>

NextUpdate ==
    \/ StoreCreate("svc-a") /\ StoreFrame
    \/ (\E id \in 1..nextId, status \in StatusArgs,
           containerID \in ContainerIDArgs, containerName \in ContainerNameArgs :
              StoreUpdateStatusWith(id, status, containerID, containerName)) /\ StoreFrame
    \/ (\E id \in 1..nextId, c \in Completions : StoreComplete(id, c)) /\ StoreFrame

SpecUpdate == InitRegistry /\ [][NextUpdate]_vars

\* C31: UpdateStatus on an existing record sets the status, overwrites the
\* container id and the container name only when the argument is not empty,
\* changes no other field, no other record and not the order; and the same
\* call applied to the result changes nothing.
C31_UpdateStatusOverwritesNonEmpty ==
    [][\A id \in DOMAIN records, status \in StatusArgs,
          containerID \in ContainerIDArgs, containerName \in ContainerNameArgs :
            StoreUpdateStatusWith(id, status, containerID, containerName) =>
               /\ DOMAIN records' = DOMAIN records
               /\ order' = order
               /\ \A other \in DOMAIN records \ {id} : records'[other] = records[other]
               /\ records'[id].Status = status
               /\ records'[id].ContainerID =
                     IF containerID = "" THEN records[id].ContainerID ELSE containerID
               /\ records'[id].ContainerName =
                     IF containerName = "" THEN records[id].ContainerName ELSE containerName
               /\ \A f \in DOMAIN records[id] \ {"Status", "ContainerID", "ContainerName"} :
                     records'[id][f] = records[id][f]
               /\ UpdateStatus([records |-> records', order |-> order'],
                               id, status, containerID, containerName)
                     = [records |-> records', order |-> order']]_vars

\* A record that had a container id and a container name has been given a new
\* status with both arguments empty, and kept them.
C31_Witness ==
    \E id \in DOMAIN records :
        /\ records[id].Status = RemediationFailed
        /\ records[id].ContainerID = "ctr-9"
        /\ records[id].ContainerName = "highline-fix-9"
        /\ records[id].EndTime = Nil
        /\ ops = MaxOps

\* ------------------------------------------------------------ a failed image pull
\* C32: a failure of the image pull alone is never terminal. A pull that fails
\* while the attempt's deadline has not passed writes nothing to the ledger,
\* makes no Complete or SetTimedOut call and does not end the invocation, which
\* goes on to mark the record running; and from there, as long as the deadline
\* has not passed, the invocation can mark the record running and can create
\* the container.
C32_PullFailureNotTerminal ==
    /\ [][\A a \in DOMAIN procs :
             ImagePullResult(a, "failed") /\ procs[a].ctx = "live" =>
                /\ records' = records /\ order' = order
                /\ procs'[a] = [procs[a] EXCEPT !.pc = "mark_running"]
                /\ ~Terminal(records'[a].Status)]_vars
    /\ [](\A a \in DOMAIN procs :
             /\ At(a, "mark_running") => ENABLED (MarkRunning(a) /\ AttemptFrame)
             /\ At(a, "create") /\ procs[a].ctx = "live" =>
                   ENABLED (ContainerCreate(a) /\ procs'[a].sandbox = "created"
                            /\ AttemptFrame))

\* An attempt is past its pull, which the model lets fail, with its deadline
\* not passed; it has created its container and its record is running.
C32_Witness ==
    \E a \in DOMAIN procs :
        /\ procs[a].ctx = "live"
        /\ procs[a].sandbox = "created"
        /\ procs[a].terminals = 0
        /\ records[a].Status = RemediationRunning

\* ------------------------------------------------------------ Create with an id of the caller's choice
\* Create takes the id from its caller (RunOpenCode passes the first 8
\* characters of a uuid): the id is a new one or one the ledger already holds.
StoreCreateAs(id, serviceName) ==
    /\ ops < MaxOps
    /\ SetLedger(Create(Ledger, id, serviceName, "https://example/x/y", "boom", now))
    /\ created' = Append(created, id)
    /\ nextId' = IF id = nextId THEN nextId + 1 ELSE nextId
    /\ ops' = ops + 1
    /\ UNCHANGED <<config, procs, reports>>

NextCreate ==
    \/ (\E id \in 1..nextId, n \in Names : StoreCreateAs(id, n)) /\ StoreFrame
    \/ (\E id \in 1..nextId : StoreUpdateStatus(id)) /\ StoreFrame
    \/ (\E id \in 1..nextId, c \in Completions : StoreComplete(id, c)) /\ StoreFrame
    \/ (\E id \in 1..nextId : StoreSetTimedOut(id)) /\ StoreFrame

SpecCreate == InitRegistry /\ [][NextCreate]_vars

\* C33: after any sequence of ledger operations the ids in the order list are
\* pairwise distinct, are exactly the keys of the record map, and number at
\* most 100, also when Create is called with an id that is already present.
C33_OrderIsKeys ==
    /\ \A i, j \in DOMAIN order : order[i] = order[j] => i = j
    /\ {order[i] : i \in DOMAIN order} = DOMAIN records
    /\ Len(order) <= LedgerCap

\* ------------------------------------------------------------ json.Marshal of a stored record
\* HeartbeatHandler and runTimeoutChecker pass the pointers RecordHeartbeat and
\* the sweep returned to Broadcast, whose json.Marshal reads the stored record
\* after the store's mutex was released, while another call may be writing it.
\* The read is taken here at one instant, which is the least a data race can
\* do; one subscriber is connected.
SilentRegistry == [n \in {"svc-a"} |-> SilentService]

InitMarshal ==
    /\ IdleLedger
    /\ now = Timeout + 1
    /\ services = SilentRegistry
    /\ serial = services
    /\ downServices = {}
    /\ ops = 0
    /\ appended = [n \in {"svc-a"} |-> SilentService.Logs]
    /\ remAppended = [n \in {"svc-a"} |-> <<>>]
    /\ hist = [n \in {"svc-a"} |-> [hb |-> 1, healthy |-> 1, downs |-> 0]]
    /\ swept = Nil
    /\ clients = {1}
    /\ conns = [ws \in {1} |->
                   [NewConn EXCEPT !.pc = "read",
                                   !.got = <<WSMessage("init", SilentRegistry)>>]]
    /\ wire = {}
    /\ sent = 0
    /\ triggers = <<>>
    /\ replies = <<>>
    /\ thr = <<>>
    /\ mu = FreeLocks

\* The calls whose result is broadcast: heartbeats of svc-a and the sweep.
MarshalCalls ==
    { <<"RecordHeartbeat", HeartbeatRequest("svc-a", "", "error", "boom", Nil)>>,
      <<"RecordHeartbeat", HeartbeatRequest("svc-a", "https://example/x/y", "healthy", "", Nil)>>,
      <<"CheckTimeouts", Nil>> }

\* BroadcastServiceUpdate(service) after the store call returned: the record
\* behind the pointer is serialised as it is now.
Marshal(t) ==
    /\ ThreadAt(t, "done")
    /\ \/ /\ thr[t].op = "RecordHeartbeat"
          /\ Broadcast("service_update", services[thr[t].arg.ServiceName])
          /\ thr' = [thr EXCEPT ![t].pc = "sent"]
       \/ /\ thr[t].op = "CheckTimeouts"
          /\ thr[t].ret # <<>>
          /\ Broadcast("service_update", services[Head(thr[t].ret)])
          /\ thr' = [thr EXCEPT ![t].ret = Tail(@),
                                ![t].pc = IF Tail(thr[t].ret) = <<>> THEN "sent" ELSE "done"]
    /\ UNCHANGED <<now, regVars, ledVars, triggers, replies, mu, serial>>

NextMarshal ==
    \/ \E c \in MarshalCalls : StoreCall(c[1], c[2])
    \/ \E t \in DOMAIN thr : StoreLock(t)
    \/ \E t \in DOMAIN thr : HeartbeatInfo(t)
    \/ \E t \in DOMAIN thr : HeartbeatStatus(t)
    \/ \E t \in DOMAIN thr : HeartbeatUptime(t)
    \/ \E t \in DOMAIN thr : SweepMark(t)
    \/ \E t \in DOMAIN thr : SweepLog(t)
    \/ \E t \in DOMAIN thr : SweepEnd(t)
    \/ \E t \in DOMAIN thr : StoreUnlock(t)
    \/ \E t \in DOMAIN thr : Marshal(t)
    \/ (\E w \in wire : Deliver(w))
           /\ UNCHANGED <<now, regVars, ledVars, triggers, replies, lockVars>>

SpecMarshal == InitMarshal /\ [][NextMarshal]_vars

\* The registries the calls in S give from reg, each call whole, in any order
\* and any number of them: every registry state that can have been committed.
RECURSIVE Serials(_, _)
Serials(reg, S) ==
    {reg} \cup UNION { Serials(wholeCall(reg, thr[t].op, thr[t].arg, now), S \ {t}) : t \in S }

\* C34: every service_update envelope, on its way or received, carries a
\* record that is the record of that service in one committed state of the
\* registry, whatever runs beside the serialisation.
C34_EnvelopeIsCommitted ==
    \A m \in {w.msg : w \in wire}
              \cup UNION { {conns[ws].got[i] : i \in DOMAIN conns[ws].got} : ws \in DOMAIN conns } :
        m.Type = "service_update" =>
            \E reg \in Serials(SilentRegistry, DOMAIN thr) :
                m.Data.Name \in DOMAIN reg /\ m.Data = reg[m.Data.Name]

\* ------------------------------------------------------------ who writes a stored remediation record
\* RunOpenCode as its ledger calls, each between Lock and Unlock of
\* RemediationStore.mu, on the path where the container is created and exits,
\* with the assignment it makes to the record Create returned; beside it, Get.
LedgerStep(t) ==
    /\ t \in DOMAIN thr /\ ~Finished(t)
    /\ Cur(t)[1] = "led"
    /\ CASE Cur(t)[2] = "Create" ->
               /\ SetLedger(Create(Ledger, nextId, thr[t].arg.serviceName,
                                   thr[t].arg.repoURL, thr[t].arg.errorLog, now))
               /\ created' = Append(created, nextId)
               /\ nextId' = nextId + 1
               /\ thr' = [thr EXCEPT ![t].pc = @ + 1, ![t].arg.id = nextId]
         [] Cur(t)[2] = "MarkRunning" ->
               /\ SetLedger(UpdateStatus(Ledger, thr[t].arg.id, RemediationRunning, "",
                                         containerNameOf(thr[t].arg.id)))
               /\ thr' = Advance(t)
               /\ UNCHANGED <<nextId, created>>
         [] Cur(t)[2] = "MarkCreated" ->
               /\ SetLedger(UpdateStatus(Ledger, thr[t].arg.id, RemediationRunning,
                                         containerIdOf(thr[t].arg.id),
                                         containerNameOf(thr[t].arg.id)))
               /\ thr' = Advance(t)
               /\ UNCHANGED <<nextId, created>>
         [] Cur(t)[2] = "Complete" ->
               /\ \E c \in Completions :
                     SetLedger(Complete(Ledger, thr[t].arg.id, c[1], c[2], c[3], now))
               /\ thr' = Advance(t)
               /\ UNCHANGED <<nextId, created>>
         [] Cur(t)[2] = "Get" ->
               /\ thr' = [thr EXCEPT ![t].pc = @ + 1, ![t].data = Get(Ledger, thr[t].arg.id)]
               /\ UNCHANGED <<records, order, nextId, created>>
         [] OTHER -> FALSE
    /\ UNCHANGED <<config, procs, reports, now, regVars, hubVars, triggers, replies, mu, serial>>

\* record.ContainerID = resp.ID, on the pointer Create returned.
DirectWrite(t) ==
    /\ FlowAt(t, <<"write", "ContainerID">>)
    /\ records' = IF thr[t].arg.id \in DOMAIN records
                  THEN [records EXCEPT ![thr[t].arg.id].ContainerID = containerIdOf(thr[t].arg.id)]
                  ELSE records
    /\ thr' = Advance(t)
    /\ UNCHANGED <<config, order, procs, nextId, reports, created, now, regVars, hubVars,
                   triggers, replies, mu, serial>>

LedgerCalls ==
    { <<"RunOpenCode", [serviceName |-> "svc-a", repoURL |-> "https://example/x/y",
                        errorLog |-> "boom", id |-> 0]>>,
      <<"Get", [id |-> 1]>> }

NextLedgerLock ==
    \/ \E c \in LedgerCalls : FlowCall(c[1], c[2])
    \/ \E t \in DOMAIN thr : FlowRequest(t)
    \/ \E t \in DOMAIN thr : FlowLock(t)
    \/ \E t \in DOMAIN thr : FlowRLock(t)
    \/ \E t \in DOMAIN thr : FlowUnlock(t)
    \/ \E t \in DOMAIN thr : FlowRUnlock(t)
    \/ \E t \in DOMAIN thr : LedgerStep(t)
    \/ \E t \in DOMAIN thr : DirectWrite(t)

SpecLedgerLock == InitRegistry /\ [][NextLedgerLock]_vars

\* C35: every write to a field of a record stored in the ledger is made by a
\* thread that holds the ledger's mutex exclusively, so that no Get holds it
\* for reading meanwhile; RunOpenCode never writes a stored record itself.
C35_WritesHoldLedgerLock ==
    [][\A t \in DOMAIN thr :
          /\ thr[t].op = "RunOpenCode"
          /\ thr'[t].pc # thr[t].pc
          /\ Cur(t)[1] \in {"led", "write"}
          /\ thr[t].arg.id \in DOMAIN records \/ Cur(t)[2] = "Create"
          => mu.ledger.w = t /\ mu.ledger.r = {}]_vars

\* ------------------------------------------------------------ the two broadcasts of one TriggerRemediation
\* One failing heartbeat of svc-a with a subscriber connected: the handler
\* broadcasts the record, and the TriggerRemediation goroutine it starts
\* broadcasts it twice, after the "Remediation triggered" entry and after the
\* entry of the outcome.
NextOrder ==
    \/ triggers = <<>> /\ HeartbeatHandler(Post(FailingRequest("svc-a")))
    \/ \E i \in DOMAIN triggers : TriggerCheck(i)
    \/ \E i \in DOMAIN triggers : TriggerLog(i)
    \/ \E i \in DOMAIN triggers : TriggerNotify(i)
    \/ \E i \in DOMAIN triggers : TriggerRun(i)
    \/ \E i \in DOMAIN triggers : TriggerResult(i)
    \/ NextAttempt
    \/ (\E w \in wire : Deliver(w))
           /\ UNCHANGED <<now, regVars, ledVars, triggers, replies, lockVars>>

SpecOrder == InitWatch /\ [][NextOrder]_vars

\* The service_update envelopes a subscriber has received, in order, by the
\* number of remediation entries in the record they carry: 1 in the first
\* broadcast of the trigger, 2 in its second.
Received(ws) ==
    [i \in DOMAIN conns[ws].got |->
        IF conns[ws].got[i].Type = "service_update"
        THEN Len(conns[ws].got[i].Data.RemediationLog)
        ELSE 0]

\* C36: of two Broadcast calls one caller makes one after the other, every
\* subscriber connected throughout receives the envelope of the first before
\* that of the second: the update TriggerRemediation broadcasts after the
\* outcome is never received before the one it broadcast when it began.
C36_BroadcastsArriveInOrder ==
    \A ws \in DOMAIN conns :
        \A i, j \in DOMAIN conns[ws].got :
            i < j => ~(Received(ws)[i] = 2 /\ Received(ws)[j] = 1)

\* ------------------------------------------------------------ the repository of a remediation record
\* C37: every remediation record in the ledger has a repository:
\* TriggerRemediation creates no record for a service whose repository is
\* empty, also when a heartbeat without repository for that service is handled
\* between the trigger's check and its call of RunOpenCode.
C37_RecordHasRepo ==
    \A id \in DOMAIN records : records[id].GitHubRepo # ""

\* ------------------------------------------------------------ the outcome TriggerRemediation logs
\* The last entry of a service's remediation log.
LastRemediationEntry(reg, name) ==
    reg[name].RemediationLog[Len(reg[name].RemediationLog)]

\* C38: the entry TriggerRemediation appends when RunOpenCode has returned
\* says "Remediation completed successfully" if and only if the attempt's
\* record in the ledger has status success; in every other case (failed,
\* timed_out, no terminal status written) it says "Remediation failed".
C38_LoggedOutcomeIsRecordStatus ==
    [][\A i \in DOMAIN triggers :
          TriggerResult(i) =>
             LET id == triggers[i].id[1]
                 entry == LastRemediationEntry(services', triggers[i].service)
             IN /\ entry[2] \in {" - Remediation completed successfully",
                                 " - Remediation failed: "}
                /\ entry[2] = " - Remediation completed successfully"
                      <=> records[id].Status = RemediationSuccess]_vars

\* ------------------------------------------------------------ down, back, and down again
\* svc-a reported healthy longer ago than the timeout, before the clock of
\* this behaviour started, and no sweep has run since.
StaleService ==
    applyHeartbeat(NewService(HeartbeatRequest("svc-a", "https://example/x/y", "healthy", "", Nil)),
                   HeartbeatRequest("svc-a", "https://example/x/y", "healthy", "", Nil),
                   0 - (Timeout + 1))

InitCycle ==
    /\ IdleLedger
    /\ now = 0
    /\ services = [n \in {"svc-a"} |-> StaleService]
    /\ downServices = {}
    /\ ops = 0
    /\ appended = [n \in {"svc-a"} |-> StaleService.Logs]
    /\ remAppended = [n \in {"svc-a"} |-> <<>>]
    /\ hist = [n \in {"svc-a"} |-> [hb |-> 1, healthy |-> 1, downs |-> 0]]
    /\ swept = Nil
    /\ IdleHub

NextCycle ==
    \/ Tick
    \/ (\E req \in AppRequests : RecordHeartbeat(req))
           /\ UNCHANGED <<ledVars, hubVars, triggers, replies, lockVars>>
    \/ CheckTimeouts /\ UNCHANGED <<ledVars, hubVars, triggers, replies, lockVars>>

SpecCycle == InitCycle /\ [][NextCycle]_vars

\* C39: a down service re-enters the cycle. A heartbeat of a down service
\* sets its status to healthy or to error; a sweep marks every service down
\* that is not down and whose last heartbeat is older than the timeout, and
\* returns it as newly down, also when it had been down before; and a service
\* goes from another status to down in exactly the steps in which a sweep
\* returns it as newly down, so that it is returned as often as it went down.
C39_DownServiceReenters ==
    [][/\ \A req \in AppRequests :
             /\ RecordHeartbeat(req)
             /\ req.ServiceName \in DOMAIN services
             /\ services[req.ServiceName].Status = StatusDown
             => services'[req.ServiceName].Status =
                   IF req.Status = "healthy" THEN StatusHealthy ELSE StatusError
       /\ CheckTimeouts =>
             \A n \in DOMAIN services :
                 services[n].Status # StatusDown /\ now - services[n].LastHeartbeat > Timeout
                 => n \in downServices' /\ services'[n].Status = StatusDown
       /\ \A n \in DOMAIN services :
             (services[n].Status # StatusDown /\ services'[n].Status = StatusDown)
             <=> (CheckTimeouts /\ n \in downServices')]_vars

\* svc-a went down, came back with a heartbeat, went stale again and has been
\* marked down a second time: its log holds two down entries around a heartbeat.
C39_Witness ==
    /\ "svc-a" \in downServices
    /\ services["svc-a"].Status = StatusDown
    /\ Cardinality({i \in DOMAIN services["svc-a"].Logs :
                       services["svc-a"].Logs[i].Type = "status"}) = 2
    /\ services["svc-a"].TotalChecks = 4

\* ------------------------------------------------------------ what a store call leaves alone
MaxLookups == 1      \* GET /services/{name} requests in one behaviour

\* Mutant: the lookup of an unknown name inserts an empty record.
GetServiceCreating(reg, name) ==
    [reg |-> IF name \in DOMAIN reg THEN reg
             ELSE Put(reg, name, NewService(HeartbeatRequest(name, "", "", "", Nil))),
     copy |-> IF name \in DOMAIN reg THEN Some(reg[name]) ELSE Nil]

\* ServiceStore.GetService: the registry after the call, and the copy returned
\* (Nil when the name is not registered).
GetService(reg, name) ==
    [reg |-> reg,
     copy |-> IF name \in DOMAIN reg THEN Some(reg[name]) ELSE Nil]

\* The status ServiceHandler answers with.
serviceStatus(method, path) ==
    IF method # "GET" THEN "StatusMethodNotAllowed"
    ELSE IF path = "" THEN "StatusBadRequest"
    ELSE IF GetService(services, path).copy = Nil THEN "StatusNotFound"
    ELSE "StatusOK"

\* GET /services/{name}.
ServiceHandler(method, path) ==
    /\ Len(replies) < MaxLookups
    /\ replies' = Append(replies, serviceStatus(method, path))
    /\ services' = IF method = "GET" /\ path # ""
                   THEN GetService(services, path).reg
                   ELSE services
    /\ UNCHANGED <<now, downServices, ops, appended, remAppended, hist, swept,
                   ledVars, hubVars, triggers, lockVars>>

\* The paths asked for: the two names, one no heartbeat ever used, and none.
LookupPaths == Names \cup {"svc-z", ""}

NextFrame ==
    \/ (\E req \in HeartbeatRequests : RecordHeartbeat(req))
           /\ UNCHANGED <<ledVars, hubVars, triggers, replies, lockVars>>
    \/ (\E n \in Names, log \in RemediationTexts : AddRemediationLog(n, log))
           /\ UNCHANGED <<ledVars, hubVars, triggers, replies, lockVars>>
    \/ \E method \in {"GET", "POST"}, path \in LookupPaths : ServiceHandler(method, path)

SpecFrame == InitRegistry /\ [][NextFrame]_vars

\* C40: RecordHeartbeat and AddRemediationLog for one service leave the record
\* of every other service as it is; no step removes a service, so the set of
\* registered names only grows; and the lookup of a name that is not
\* registered answers not found and leaves the registry as it is.
C40_OtherServicesUntouched ==
    [][/\ \A req \in HeartbeatRequests :
             RecordHeartbeat(req) =>
                \A n \in DOMAIN services \ {req.ServiceName} :
                    n \in DOMAIN services' /\ services'[n] = services[n]
       /\ \A a \in Names, log \in RemediationTexts :
             AddRemediationLog(a, log) =>
                /\ DOMAIN services' = DOMAIN services
                /\ \A n \in DOMAIN services \ {a} : services'[n] = services[n]
       /\ DOMAIN services \subseteq DOMAIN services'
       /\ \A path \in LookupPaths \ {""} :
             ServiceHandler("GET", path) /\ path \notin DOMAIN services =>
                /\ services' = services
                /\ replies'[Len(replies')] = "StatusNotFound"]_vars

\* Both services are registered, svc-a has a remediation entry besides, and
\* a name that is not registered was looked up and not found.
C40_Witness ==
    /\ DOMAIN services = {"svc-a", "svc-b"}
    /\ Len(services["svc-a"].RemediationLog) = 1
    /\ services["svc-b"].TotalChecks = 1
    /\ replies # <<>> /\ replies[Len(replies)] = "StatusNotFound"

====
